---- MODULE Spec2Model ----
(***************************************************************************)
(* Model of specli's merge/update engine and its backup protocol:          *)
(* filesystem.py (detect / copy / merge), backup.py (BackupManager),       *)
(* config.py (save_config / load_config) and operations.py                 *)
(* (deploy_operation, update_operation).                                   *)
(*                                                                         *)
(* A content tree is a function from relative paths to nodes.  A relative  *)
(* path is a sequence of names; a name is a sequence of atoms, so that     *)
(* str(relative_path) and Python's substring test can be computed.         *)
(***************************************************************************)
EXTENDS Integers, Sequences, FiniteSets, TLC

(***************************************************************************)
(* Bounds of the model.                                                    *)
(***************************************************************************)
\* the clock (time.time() truncated to seconds) runs over 0..MaxTime
MaxTime == 1
\* number of library calls and operations in one behaviour
MaxOps == 2
\* number of deploy_operation and update_operation runs among them
MaxRuns == 1
\* number of snapshots the vault holds at most
MaxSnapshots == 3
\* number of injected I/O failures in one behaviour
MaxFaults == 1

(***************************************************************************)
(* Names, paths, file contents.                                            *)
(***************************************************************************)
SLJ == <<"settings.local.json">>
CommandsName == <<"commands">>
AMd == <<"a", ".md">>
SLJBak == <<"settings.local.json", ".bak">>
SJ == <<"settings.json">>

\* the path of the content root itself
RootPath == <<>>

\* relative paths of the model, below the content root
RelPaths ==
  { <<CommandsName>>, <<CommandsName, AMd>>, <<SJ>>, <<SLJ>>, <<SLJBak>>,
    <<AMd>>, <<CommandsName, CommandsName>>,
    <<CommandsName, CommandsName, AMd>>, <<CommandsName, SLJ>> }

Paths == {RootPath} \cup RelPaths

\* file contents: byte strings, closed under prefix
Contents == { <<>>, <<1>> }

Absent == [kind |-> "absent", data |-> <<>>]
Dir == [kind |-> "dir", data |-> <<>>]
File(c) == [kind |-> "file", data |-> c]

Nodes == {Absent, Dir} \cup { File(c) : c \in Contents }

Parent(p) == SubSeq(p, 1, Len(p) - 1)

\* proper ancestors of p, the root included
Ancestors(p) == { SubSeq(p, 1, k) : k \in 0..(Len(p) - 1) }

IsUnder(p, q) == q \in Ancestors(p)

\* Path.exists()
Exists(t, p) == t[p].kind # "absent"

IsDir(t, p) == t[p].kind = "dir"

IsFile(t, p) == t[p].kind = "file"

\* a tree of the filesystem: whatever exists has a directory as parent
WellFormed(t) ==
  \A p \in RelPaths : Exists(t, p) => IsDir(t, Parent(p))

\* the paths that hold entries in the model; the others are files when they exist
DirPaths == { Parent(p) : p \in RelPaths }

AllTrees ==
  { t \in [Paths -> Nodes] :
      WellFormed(t) /\ \A p \in Paths : IsDir(t, p) => p \in DirPaths }

NoTree == [p \in Paths |-> Absent]

\* the trees that hold nothing outside the paths S: the trees t of AllTrees
\* with ~Exists(t, p) for every p of RelPaths \ S
TreesOver(S) ==
  LET over == { [p \in Paths |-> IF p \in S \cup {RootPath} THEN f[p] ELSE Absent] :
                  f \in [S \cup {RootPath} -> Nodes] }
  IN { t \in over : WellFormed(t) /\ \A p \in Paths : IsDir(t, p) => p \in DirPaths }

\* the families of trees the specifications start from: ordinary files,
\* nesting and the local settings; names that contain the local settings name
Families ==
  { { <<CommandsName>>, <<CommandsName, AMd>>, <<SJ>> },
    { <<SJ>>, <<SLJ>> },
    { <<SLJ>>, <<SLJBak>> } }

\* the files below the root: what rglob("*") yields with is_file()
FilesOf(t) == { p \in RelPaths : IsFile(t, p) }

RECURSIVE SumSizes(_, _)
SumSizes(t, S) ==
  IF S = {} THEN 0
  ELSE LET p == CHOOSE q \in S : TRUE
       IN Len(t[p].data) + SumSizes(t, S \ {p})

\* total size in bytes of the files of a tree
TotalBytes(t) == SumSizes(t, FilesOf(t))

(***************************************************************************)
(* str(relative_path) and the preservation test of merge_claude_folders.   *)
(***************************************************************************)
Sep == "/"

RECURSIVE PathStr(_)
\* str(relative_path): the names joined by "/", as a sequence of atoms
PathStr(p) ==
  IF Len(p) = 0 THEN <<>>
  ELSE IF Len(p) = 1 THEN p[1]
  ELSE p[1] \o <<Sep>> \o PathStr(Tail(p))

\* Python's `pattern in s` on strings: pattern is a contiguous part of s
Contains(s, pat) ==
  \E i \in 1..(Len(s) - Len(pat) + 1) : SubSeq(s, i, i + Len(pat) - 1) = pat

\* patterns that do not depend on the caller's choice
PreservePatternsAlways(preserve_local) == {SLJ}

\* preserve_patterns, filesystem.py:220
PreservePatterns(preserve_local) == IF preserve_local THEN {SLJ} ELSE {}

\* a test that looks at the top level of the tree only
IsPreservedTopLevel(p, preserve_local) ==
  Len(p) = 1 /\ \E pat \in PreservePatterns(preserve_local) : Contains(PathStr(p), pat)

\* a test that preserves nothing
IsPreservedNever(p, preserve_local) == FALSE

\* any(pattern in str(relative_path) for pattern in preserve_patterns),
\* filesystem.py:229
IsPreserved(p, preserve_local) ==
  \E pat \in PreservePatterns(preserve_local) : Contains(PathStr(p), pat)

(***************************************************************************)
(* Results of the library calls (the dictionaries they return).  error =   *)
(* "" stands for None; raised # "" is an exception leaving the call.       *)
(***************************************************************************)
NoName == [ts |-> -1, n |-> 0]

BlankResult ==
  [raised |-> "", success |-> FALSE, files_updated |-> 0, files_added |-> 0,
   files_preserved |-> 0, files_copied |-> 0, bytes_copied |-> 0,
   backup_created |-> FALSE, backup_path |-> NoName, error |-> "",
   command_count |-> 0, config_exists |-> FALSE, repository_url |-> "",
   branch |-> ""]

(***************************************************************************)
(* Injected I/O failures.  at = 0: none.  Otherwise the at-th file of the  *)
(* walk raises: "before" any effect, after the parent "mkdir", or during   *)
(* the "write" having written `keep` bytes (keep = all: copy2 wrote the    *)
(* file and failed in copystat).                                           *)
(***************************************************************************)
NoFault == [at |-> 0, mode |-> "none", keep |-> 0]

\* how many bytes an interrupted write may have written
KeepChoices == { Len(c) : c \in Contents }

MergeFaults(n) ==
  [at : 1..n, mode : {"before", "mkdir"}, keep : {0}] \cup
  [at : 1..n, mode : {"write"}, keep : KeepChoices]

(***************************************************************************)
(* merge_claude_folders, filesystem.py:218-254: the walk over the source.  *)
(***************************************************************************)
\* a mkdir that replaces a file standing where a directory is needed
MkdirParentsReplacing(t, p) ==
  [failed |-> FALSE,
   tree |-> [q \in Paths |->
               IF q \in Ancestors(p) THEN Dir
               ELSE IF \E a \in Ancestors(p) : IsFile(t, a) /\ IsUnder(q, a) THEN Absent
               ELSE t[q]]]

\* target_file.parent.mkdir(parents=True, exist_ok=True), filesystem.py:234:
\* raises when an ancestor is a regular file, creates the missing ones
MkdirParents(t, p) ==
  [failed |-> \E a \in Ancestors(p) : IsFile(t, a),
   tree |-> [q \in Paths |-> IF q \in Ancestors(p) /\ ~Exists(t, q) THEN Dir ELSE t[q]]]

\* a comparison that finds every pair of files different
DiffersAlways(src, t, p) == TRUE

\* source_file.read_bytes() != target_file.read_bytes(), filesystem.py:238
Differs(src, t, p) == src[p].data # t[p].data

\* a skip that forgets to count
CountPreservedNot(res) == res

\* result["files_preserved"] += 1, filesystem.py:230
CountPreserved(res) == [res EXCEPT !.files_preserved = @ + 1]

\* an overwrite counted as an addition
CountUpdatedAsAdded(res) == [res EXCEPT !.files_added = @ + 1]

\* result["files_updated"] += 1, filesystem.py:242
CountUpdated(res) == [res EXCEPT !.files_updated = @ + 1]

\* result["files_added"] += 1, filesystem.py:247
CountAdded(res) == [res EXCEPT !.files_added = @ + 1]

\* shutil.copy2(source_file, target_file)
Copy2(src, t, p) == [t EXCEPT ![p] = File(src[p].data)]

\* shutil.copy2 interrupted after `keep` bytes
PartialWrite(src, t, p, keep) ==
  LET data == src[p].data
  IN [t EXCEPT ![p] = File(SubSeq(data, 1, IF keep < Len(data) THEN keep ELSE Len(data)))]

\* one iteration of the loop body for source file p, filesystem.py:224-247;
\* mode is the injected failure of this iteration ("none" when there is
\* none; "before": the walk or is_file() raises before the file is handled).
\* Returns the target, the result and whether an exception left the loop.
MergeFile(src, t, res, p, preserve_local, mode, keep) ==
  IF mode = "before"
  THEN [tree |-> t, res |-> res, exc |-> TRUE]
  ELSE IF IsPreserved(p, preserve_local)
  THEN [tree |-> t, res |-> CountPreserved(res), exc |-> FALSE]
  ELSE LET mk == MkdirParents(t, p)
           t1 == mk.tree
       IN
    IF mk.failed
    THEN [tree |-> t, res |-> res, exc |-> TRUE]
    ELSE IF mode = "mkdir" \/ IsDir(t1, p)
    THEN [tree |-> t1, res |-> res, exc |-> TRUE]
    ELSE IF IsFile(t1, p)
    THEN IF Differs(src, t1, p)
         THEN IF mode = "write"
              THEN [tree |-> PartialWrite(src, t1, p, keep), res |-> res, exc |-> TRUE]
              ELSE [tree |-> Copy2(src, t1, p), res |-> CountUpdated(res), exc |-> FALSE]
         ELSE [tree |-> t1, res |-> res, exc |-> mode = "write"]
    ELSE IF mode = "write"
         THEN [tree |-> PartialWrite(src, t1, p, keep), res |-> res, exc |-> TRUE]
         ELSE [tree |-> Copy2(src, t1, p), res |-> CountAdded(res), exc |-> FALSE]

\* the except branch, mutated: the exception leaves the function
MergeExceptReraising(res) == [res EXCEPT !.raised = "Exception"]

\* filesystem.py:251-252: "except Exception as e: result['error'] = str(e)",
\* with the counters as they stand and success still False
MergeExcept(res) == [res EXCEPT !.error = "merge error"]

RECURSIVE MergeWalk(_, _, _, _, _, _, _)
\* the for loop over `walk` (the source files in rglob order) from index i
MergeWalk(src, t, res, walk, i, preserve_local, fault) ==
  IF i > Len(walk)
  THEN [tree |-> t, res |-> [res EXCEPT !.success = TRUE]]
  ELSE LET mode == IF fault.at = i THEN fault.mode ELSE "none"
           step == MergeFile(src, t, res, walk[i], preserve_local, mode, fault.keep)
       IN IF step.exc
          THEN [tree |-> step.tree, res |-> MergeExcept(step.res)]
          ELSE MergeWalk(src, step.tree, step.res, walk, i + 1, preserve_local, fault)

\* the source files in the order rglob yields them
WalkOf(src, order) == SelectSeq(order, LAMBDA p : IsFile(src, p))


(***************************************************************************)
(* detect_claude_folder, filesystem.py:29-59.                              *)
(***************************************************************************)
CommandsPath == <<CommandsName>>

DetectClaudeFolderLenient(t) ==
  IF ~Exists(t, RootPath) THEN "NotFound"
  ELSE IF ~IsDir(t, RootPath) THEN "Corrupted"
  ELSE "ok"

DetectClaudeFolder(t) ==
  IF ~Exists(t, RootPath) THEN "NotFound"
  ELSE IF ~IsDir(t, RootPath) THEN "Corrupted"
  ELSE IF Exists(t, CommandsPath) /\ ~IsDir(t, CommandsPath) THEN "Corrupted"
  ELSE "ok"

\* Path.suffix == ".md": the last atom of a name of at least two atoms
HasSuffixMd(name) == Len(name) >= 2 /\ name[Len(name)] = ".md"

\* fnmatch(name, "*.md"): the name ends in ".md"
GlobsMd(name) == Len(name) >= 1 /\ name[Len(name)] = ".md"

\* info["command_count"] of get_claude_folder_info: over rglob("*"), the
\* files with file_path.parent.name == "commands" and suffix ".md"
InfoCommandCount(t) ==
  IF ~Exists(t, RootPath) THEN 0
  ELSE Cardinality({ p \in FilesOf(t) :
                       /\ Len(p) >= 2
                       /\ p[Len(p) - 1] = CommandsName
                       /\ HasSuffixMd(p[Len(p)]) })

\* validation["structure"]["command_count"] and validation["valid"] of
\* validate_claude_folder_structure: commands_path.glob("*.md")
ValidateClaudeFolderStructure(t) ==
  IF ~Exists(t, RootPath) \/ ~IsDir(t, RootPath)
  THEN [valid |-> FALSE, command_count |-> 0]
  ELSE IF ~Exists(t, CommandsPath)
  THEN [valid |-> TRUE, command_count |-> 0]
  ELSE IF ~IsDir(t, CommandsPath)
  THEN [valid |-> FALSE, command_count |-> 0]
  ELSE [valid |-> TRUE,
        command_count |->
          Cardinality({ p \in FilesOf(t) :
                          /\ Parent(p) = CommandsPath
                          /\ GlobsMd(p[Len(p)]) })]

(***************************************************************************)
(* Timestamped names.  [ts, n] with n = 0 is the bare timestamp; n >= 1 is *)
(* the suffixed name (<ts>_<n> in the vault, .claude.backup.<ts>.<n> next  *)
(* to the content tree).                                                   *)
(***************************************************************************)
Name(ts, n) == [ts |-> ts, n |-> n]

RECURSIVE FreeSuffix(_, _, _)
\* the `while backup_path.exists(): ... counter += 1` loop
FreeSuffix(taken, ts, counter) ==
  IF Name(ts, counter) \in taken THEN FreeSuffix(taken, ts, counter + 1)
  ELSE Name(ts, counter)

\* a name taken from the clock alone
VaultNameNoLoop(taken, ts) == Name(ts, 0)

\* the snapshot's name in the vault, backup.py:75-84
VaultName(taken, ts) ==
  IF Name(ts, 0) \in taken THEN FreeSuffix(taken, ts, 1) ELSE Name(ts, 0)

\* a sibling name taken from the clock alone
SiblingNameNoLoop(taken, ts) == Name(ts, 0)

\* the backup's name next to the content tree, filesystem.py:115-124
SiblingName(taken, ts) ==
  IF Name(ts, 0) \in taken THEN FreeSuffix(taken, ts, 1) ELSE Name(ts, 0)

\* a copy that leaves the local settings out
CopyTreeWithoutLocal(t, missing) ==
  [p \in Paths |-> IF p \in missing \/ p = <<SLJ>> THEN Absent ELSE t[p]]

\* a copy that makes every file and writes no bytes
CopyTreeEmptyFiles(t, missing) ==
  [p \in Paths |-> IF p \in missing THEN Absent
                   ELSE IF t[p].kind = "file" THEN File(<<>>) ELSE t[p]]

\* a copy that leaves out settings.json
CopyTreeWithoutSettings(t, missing) ==
  [p \in Paths |-> IF p \in missing \/ p = <<SJ>> THEN Absent ELSE t[p]]

\* shutil.copytree of tree t; the files in `missing` could not be copied
CopyTree(t, missing) == [p \in Paths |-> IF p \in missing THEN Absent ELSE t[p]]

\* a map with one more entry
Put(m, k, v) == [x \in DOMAIN m \cup {k} |-> IF x = k THEN v ELSE m[x]]

Drop(m, k) == [x \in DOMAIN m \ {k} |-> m[x]]

EmptyMap == [x \in {} |-> NoTree]

(***************************************************************************)
(* BackupManager.create_claude_backup, backup.py:54-92.                    *)
(* The vault is <target>/.claude-backup: absent, a regular file, or a      *)
(* directory of snapshots; a snapshot <name>/.claude is a tree.            *)
(* fault: "none", "mkdir" (the vault cannot be created), "makedirs" (the   *)
(* snapshot directory cannot be created), "copy" (copytree raises Error    *)
(* after leaving out the files in `missing`).                              *)
(***************************************************************************)
NoVault == [kind |-> "absent", snaps |-> EmptyMap]

FileVault == [kind |-> "file", snaps |-> EmptyMap]

BackupFaults(t) ==
  [stage : {"mkdir", "makedirs"}, missing : {{}}] \cup
  [stage : {"copy"}, missing : SUBSET FilesOf(t) \ {{}}]

NoBackupFault == [stage |-> "none", missing |-> {}]

BackupOk(name) == [BlankResult EXCEPT !.success = TRUE, !.backup_path = name]

\* a failure that leaves the call as an exception
BackupFailedRaising(msg) == [BlankResult EXCEPT !.raised = "Exception"]

\* the failure dictionaries, backup.py:67 and 91-92
BackupFailed(msg) == [BlankResult EXCEPT !.error = msg]

\* a vault made anew
MkdirVaultFresh(v) == [kind |-> "dir", snaps |-> EmptyMap]

\* backup_root.mkdir(exist_ok=True), backup.py:71-72: an existing vault
\* keeps what it holds
MkdirVault(v) == [v EXCEPT !.kind = "dir"]

CreateClaudeBackup(t, v, now, fault) ==
  IF ~Exists(t, RootPath)
  THEN [vault |-> v, res |-> BackupFailed(".claude folder does not exist")]
  ELSE IF v.kind = "file" \/ fault.stage = "mkdir"
  THEN [vault |-> v, res |-> BackupFailed("Backup failed")]
  ELSE LET v1 == MkdirVault(v)
           name == VaultName(DOMAIN v1.snaps, now)
       IN IF ~IsDir(t, RootPath) \/ fault.stage = "makedirs"
          THEN [vault |-> v1, res |-> BackupFailed("Backup failed")]
          ELSE IF fault.stage = "copy"
          THEN [vault |-> [v1 EXCEPT !.snaps = Put(@, name, CopyTree(t, fault.missing))],
                res |-> BackupFailed("Backup failed")]
          ELSE [vault |-> [v1 EXCEPT !.snaps = Put(@, name, CopyTree(t, {}))],
                res |-> BackupOk(name)]


(***************************************************************************)
(* copy_claude_folder and create_backup, filesystem.py:102-186.            *)
(* sib maps the names of the .claude.backup.<ts>[.<n>] directories next    *)
(* to the content tree to their trees.                                     *)
(* fault.stage: "backup" (create_backup's copytree fails, leaving a copy   *)
(* without `part`), "rmtree" (rmtree stops having removed `part`),         *)
(* "copy" (copytree of the source fails, leaving out `part`), "stats"      *)
(* (get_claude_folder_info raises).  fault.restore: whether the restore of *)
(* the except branch fails as well.                                        *)
(***************************************************************************)
NoCopyFault == [stage |-> "none", part |-> {}, restore |-> "ok"]

\* there is a restore only when there was a target to back up
RestoreOutcomes(t) == IF IsDir(t, RootPath) THEN {"ok", "fails"} ELSE {"ok"}

CopyFaults(src, t) ==
  [stage : {"backup"}, part : SUBSET FilesOf(t) \ {{}}, restore : {"ok"}] \cup
  [stage : {"rmtree"}, part : SUBSET FilesOf(t) \ {FilesOf(t)},
   restore : RestoreOutcomes(t)] \cup
  [stage : {"copy"}, part : SUBSET FilesOf(src) \ {{}},
   restore : RestoreOutcomes(t)] \cup
  [stage : {"stats"}, part : {{}}, restore : RestoreOutcomes(t)]

\* the failures of the steps that a call with these arguments reaches:
\* create_backup and rmtree run when an existing target directory is backed
\* up, copytree and the statistics when the source is a directory and the
\* target path is free by then; the restore runs only after a backup
CopyFaultsReached(src, t, create_backup_if_exists) ==
  LET backs_up == Exists(t, RootPath) /\ create_backup_if_exists
  IN { f \in CopyFaults(src, t) :
         /\ Exists(src, RootPath)
         /\ backs_up => IsDir(t, RootPath)
         /\ f.stage \in {"backup", "rmtree"} => backs_up
         /\ f.stage \in {"copy", "stats"} =>
              IsDir(src, RootPath) /\ (backs_up \/ ~Exists(t, RootPath))
         /\ f.restore = "fails" => backs_up }

\* an except branch that removes the target when there is no backup to restore
CopyFailedClearing(t, sib, bp, res0) ==
  LET res == [res0 EXCEPT !.error = "copy error"] IN
  IF bp # NoName /\ bp \in DOMAIN sib
  THEN [target |-> sib[bp], sib |-> Drop(sib, bp),
        res |-> [res EXCEPT !.backup_created = FALSE, !.backup_path = NoName]]
  ELSE [target |-> NoTree, sib |-> sib, res |-> res]

\* an except branch that does not put the backup back
CopyFailedUnrestored(t, sib, bp, res0) ==
  [target |-> t, sib |-> sib, res |-> [res0 EXCEPT !.error = "copy error"]]

\* the except branch, filesystem.py:176-184; bp is the backup's name or NoName
CopyFailed(t, sib, bp, res0) ==
  LET res == [res0 EXCEPT !.error = "copy error"] IN
  IF bp # NoName /\ bp \in DOMAIN sib
  THEN [target |-> sib[bp], sib |-> Drop(sib, bp),
        res |-> [res EXCEPT !.backup_created = FALSE, !.backup_path = NoName]]
  ELSE [target |-> t, sib |-> sib, res |-> res]

\* the except branch after the backup was made, filesystem.py:179-182: the
\* rmtree of what is at the target or the move of the backup may fail in
\* its turn (fault.restore), and that exception leaves copy_claude_folder
\* with the target as the failed step left it and the backup beside it
CopyExcept(t, sib, bp, res0, fault) ==
  IF fault.restore = "fails" /\ bp # NoName /\ bp \in DOMAIN sib
  THEN [target |-> t, sib |-> sib, res |-> [res0 EXCEPT !.raised = "OSError"]]
  ELSE CopyFailed(t, sib, bp, res0)

\* shutil.copytree(source_path, target_claude) and the statistics,
\* filesystem.py:167-174
CopyBody(src, t, sib, bp, res, fault) ==
  IF Exists(t, RootPath) \/ ~IsDir(src, RootPath)
  THEN CopyFailed(t, sib, bp, res)
  ELSE IF fault.stage = "copy"
  THEN CopyExcept(CopyTree(src, fault.part), sib, bp, res, fault)
  ELSE IF fault.stage = "stats"
  THEN CopyExcept(CopyTree(src, {}), sib, bp, res, fault)
  ELSE LET t1 == CopyTree(src, {})
       IN [target |-> t1, sib |-> sib,
           res |-> [res EXCEPT !.files_copied = Cardinality(FilesOf(t1)),
                               !.bytes_copied = TotalBytes(t1),
                               !.success = TRUE]]

\* filesystem.py:161: does copy_claude_folder call create_backup
CopyBacksUp(t, create_backup_if_exists) ==
  Exists(t, RootPath) /\ create_backup_if_exists

CopyClaudeFolder(src, t, sib, now, create_backup_if_exists, fault) ==
  IF ~Exists(src, RootPath)
  THEN [target |-> t, sib |-> sib,
        res |-> [BlankResult EXCEPT !.raised = "ClaudeFolderNotFoundError"]]
  ELSE IF CopyBacksUp(t, create_backup_if_exists)
  THEN LET bp == SiblingName(DOMAIN sib, now) IN
       IF ~IsDir(t, RootPath)
       THEN CopyFailed(t, sib, NoName, BlankResult)
       ELSE IF fault.stage = "backup"
       THEN CopyFailed(t, Put(sib, bp, CopyTree(t, fault.part)), NoName, BlankResult)
       ELSE LET sib1 == Put(sib, bp, CopyTree(t, {}))
                res1 == [BlankResult EXCEPT !.backup_created = TRUE, !.backup_path = bp]
            IN IF fault.stage = "rmtree"
               THEN CopyExcept(CopyTree(t, fault.part), sib1, bp, res1, fault)
               ELSE CopyBody(src, NoTree, sib1, bp, res1, fault)
  ELSE CopyBody(src, t, sib, NoName, BlankResult, fault)

(***************************************************************************)
(* merge_claude_folders, filesystem.py:189-254.                            *)
(***************************************************************************)
\* a merge that walks the source even when the target does not exist
MergeClaudeFoldersWalkOnly(src, t, sib, now, order, preserve_local, mfault, cfault) ==
  IF ~Exists(src, RootPath)
  THEN [target |-> t, sib |-> sib,
        res |-> [BlankResult EXCEPT !.raised = "ClaudeFolderNotFoundError"]]
  ELSE LET m == MergeWalk(src, [t EXCEPT ![RootPath] = Dir], BlankResult,
                          WalkOf(src, order), 1, preserve_local, mfault)
       IN [target |-> m.tree, sib |-> sib, res |-> m.res]

MergeClaudeFolders(src, t, sib, now, order, preserve_local, mfault, cfault) ==
  IF ~Exists(src, RootPath)
  THEN [target |-> t, sib |-> sib,
        res |-> [BlankResult EXCEPT !.raised = "ClaudeFolderNotFoundError"]]
  ELSE IF ~Exists(t, RootPath)
  THEN CopyClaudeFolder(src, t, sib, now, FALSE, cfault)
  ELSE LET m == MergeWalk(src, t, BlankResult, WalkOf(src, order), 1,
                          preserve_local, mfault)
       IN [target |-> m.tree, sib |-> sib, res |-> m.res]


(***************************************************************************)
(* State.                                                                  *)
(***************************************************************************)
VARIABLES
  source,   \* the content tree of the source repository (<clone>/.claude)
  target,   \* the target content tree (<target>/.claude)
  vault,    \* <target>/.claude-backup
  sib,      \* the .claude.backup.<ts>[.<n>] directories in <target>
  clock,    \* int(time.time())
  order,    \* the order in which rglob yields the paths of a tree
  ops,      \* library calls and runs made so far
  faults,   \* I/O failures injected so far
  last,     \* the last library call made directly or by the running
            \* operation: its arguments, pre-state and result
  prev,     \* the library call before it
  tdir,     \* what the target path is: "dir", "file" or "absent"
  config,   \* <target>/.specli.settings.json
  pc,       \* where the running deploy_operation or update_operation stands
  run       \* the running (or last) operation: arguments, history, result

vars ==
  <<source, target, vault, sib, clock, order, ops, faults, last, prev,
    tdir, config, pc, run>>

\* rglob("*") yields a directory's entries in the directory's own order,
\* which does not change while the directory does not
ScanOrders ==
  { << <<SJ>>, <<SLJ>>, <<SLJBak>>, <<AMd>>, <<CommandsName>>,
       <<CommandsName, AMd>>, <<CommandsName, SLJ>>,
       <<CommandsName, CommandsName>>,
       <<CommandsName, CommandsName, AMd>> >>,
    << <<CommandsName, CommandsName, AMd>>, <<CommandsName, CommandsName>>,
       <<CommandsName, SLJ>>, <<CommandsName, AMd>>, <<CommandsName>>,
       <<AMd>>, <<SLJBak>>, <<SLJ>>, <<SJ>> >> }

\* the result dictionary of deploy_operation and update_operation,
\* operations.py:40-57 and 163-181; error "" is None.  update_operation's
\* dictionary has no files_copied, bytes_copied or fresh_deploy key and no
\* statement adds one: reading them gives 0 and a false value (output.py:41)
BlankRunResult ==
  [success |-> FALSE, error |-> "", message |-> "", config_loaded |-> FALSE,
   backup_needed |-> FALSE, backup_created |-> FALSE,
   claude_folder_found |-> FALSE, files_updated |-> 0, files_added |-> 0,
   files_preserved |-> 0, files_copied |-> 0, bytes_copied |-> 0,
   config_saved |-> FALSE, fresh_deploy |-> FALSE, source_from_config |-> ""]

\* no configuration file
NoConfig == [kind |-> "absent", url |-> "", branch |-> ""]

\* the update command of main.py has not been run
NoTwin ==
  [pc |-> "none", ran |-> FALSE, tdir |-> "absent", target |-> NoTree, vault |-> NoVault,
   sib |-> EmptyMap, config |-> NoConfig, source_repo |-> "",
   answer |-> "none", typed |-> "none", remote |-> "none", log |-> <<>>,
   injected |-> FALSE]

\* no operation is running and none has run since the last library call
NoRun ==
  [kind |-> "none", dry_run |-> FALSE, no_backup |-> FALSE, source_repo |-> "",
   arg_source |-> "", twin |-> NoTwin,
   start |-> NoTree, startVault |-> NoVault, startConfig |-> NoConfig,
   startSib |-> EmptyMap,
   answer |-> "none",
   tried |-> FALSE, snapshot |-> NoName, remote |-> <<>>, log |-> <<>>,
   applied |-> "none",
   tempdir |-> FALSE, finished |-> FALSE, res |-> BlankRunResult]

NoCall ==
  [op |-> "none", src |-> NoTree, pre |-> NoTree, preVault |-> NoVault,
   preSib |-> EmptyMap, preserve |-> TRUE, injected |-> FALSE,
   stage |-> "none", now |-> 0,
   res |-> BlankResult]

Call(op, preserve, injected, out) ==
  [op |-> op, src |-> source, pre |-> target, preVault |-> vault,
   preSib |-> sib, preserve |-> preserve, injected |-> injected,
   stage |-> "none", now |-> clock, res |-> out.res]

\* a copy_claude_folder call, with the step at which a failure was injected
CallCopy(preserve, cfault, out) ==
  [Call("copy", preserve, cfault # NoCopyFault, out) EXCEPT !.stage = cfault.stage]

InitCommon ==
  /\ sib = EmptyMap
  /\ ops = 0
  /\ faults = 0
  /\ last = NoCall
  /\ prev = NoCall
  /\ pc = "idle"
  /\ run = NoRun

(***************************************************************************)
(* Library calls made directly.                                            *)
(***************************************************************************)
\* the failures a call may be given: none, or one of `fs` while failures remain
MayFail(none, fs) == {none} \cup (IF faults < MaxFaults THEN fs ELSE {})

Injected(n) == faults' = faults + (IF n THEN 1 ELSE 0)

\* merge_claude_folders(source, <target>/.claude, preserve_local)
MergeCall ==
  /\ pc = "idle"
  /\ ops < MaxOps
  /\ \E preserve_local \in BOOLEAN :
     \E mfault \in MayFail(NoFault,
                   IF Exists(target, RootPath)
                   THEN MergeFaults(Len(WalkOf(source, order))) ELSE {}) :
     \E cfault \in MayFail(NoCopyFault,
                   IF Exists(target, RootPath) THEN {}
                   ELSE CopyFaultsReached(source, target, FALSE)) :
       LET out == MergeClaudeFolders(source, target, sib, clock, order,
                                     preserve_local, mfault, cfault)
           inj == mfault # NoFault \/ cfault # NoCopyFault
       IN /\ target' = out.target
          /\ sib' = out.sib
          /\ last' = Call("merge", preserve_local, inj, out)
          /\ prev' = last
          /\ Injected(inj)
  /\ ops' = ops + 1
  /\ run' = NoRun
  /\ UNCHANGED <<source, vault, clock, order, tdir, config, pc>>

\* BackupManager(<target>).create_claude_backup()
BackupCall ==
  /\ pc = "idle"
  /\ Cardinality(DOMAIN vault.snaps) < MaxSnapshots
  /\ \E fault \in MayFail(NoBackupFault, BackupFaults(target)) :
       LET out == CreateClaudeBackup(target, vault, clock, fault)
       IN /\ vault' = out.vault
          /\ last' = Call("backup", TRUE, fault # NoBackupFault, out)
          /\ prev' = last
          /\ Injected(fault # NoBackupFault)
  /\ run' = NoRun
  /\ UNCHANGED <<source, target, sib, clock, order, ops, tdir, config, pc>>

\* the positions whose next step reads time.time() (backup.py:75,
\* filesystem.py:115): a library call, the snapshot of an update, the copy
\* of a deploy.  A second that passes anywhere else is seen only at the
\* next of these.
ClockReaders == {"idle", "u_create_backup", "d_copy"}


\* time passes
Tick ==
  /\ pc \in ClockReaders
  /\ clock < MaxTime
  /\ clock' = clock + 1
  /\ UNCHANGED <<source, target, vault, sib, order, ops, faults, last, prev,
                 tdir, config, pc, run>>

\* copy_claude_folder(source, <target>, create_backup_if_exists)
\* detect_claude_folder(repo_path) on the target repository
DetectCall ==
  /\ pc = "idle"
  /\ ops < MaxOps
  /\ LET d == DetectClaudeFolder(target)
         out == [res |-> [BlankResult EXCEPT
                            !.raised = IF d = "ok" THEN "" ELSE d,
                            !.success = (d = "ok")]]
     IN last' = Call("detect", FALSE, FALSE, out)
  /\ prev' = last
  /\ ops' = ops + 1
  /\ run' = NoRun
  /\ UNCHANGED <<source, target, sib, vault, clock, order, tdir, config, pc,
                 faults>>

\* get_claude_folder_info(claude_path) on the target's content root
InfoCall ==
  /\ pc = "idle"
  /\ ops < MaxOps
  /\ LET out == [res |-> [BlankResult EXCEPT
                            !.success = Exists(target, RootPath),
                            !.command_count = InfoCommandCount(target)]]
     IN last' = Call("info", FALSE, FALSE, out)
  /\ prev' = last
  /\ ops' = ops + 1
  /\ run' = NoRun
  /\ UNCHANGED <<source, target, sib, vault, clock, order, tdir, config, pc,
                 faults>>

\* validate_claude_folder_structure(claude_path) on the target's content root
ValidateCall ==
  /\ pc = "idle"
  /\ ops < MaxOps
  /\ LET v == ValidateClaudeFolderStructure(target)
         out == [res |-> [BlankResult EXCEPT
                            !.success = v.valid,
                            !.command_count = v.command_count]]
     IN last' = Call("validate", FALSE, FALSE, out)
  /\ prev' = last
  /\ ops' = ops + 1
  /\ run' = NoRun
  /\ UNCHANGED <<source, target, sib, vault, clock, order, tdir, config, pc,
                 faults>>

CopyCall ==
  /\ pc = "idle"
  /\ ops < MaxOps
  /\ tdir = "dir"
  /\ \E create_backup_if_exists \in BOOLEAN :
     \E cfault \in MayFail(NoCopyFault,
                   CopyFaultsReached(source, target, create_backup_if_exists)) :
       LET out == CopyClaudeFolder(source, target, sib, clock,
                                   create_backup_if_exists, cfault)
       IN /\ target' = out.target
          /\ sib' = out.sib
          /\ last' = CallCopy(create_backup_if_exists, cfault, out)
          /\ prev' = last
          /\ Injected(cfault # NoCopyFault)
  /\ ops' = ops + 1
  /\ run' = NoRun
  /\ UNCHANGED <<source, vault, clock, order, tdir, config, pc>>

(***************************************************************************)
(* The configuration file, config.py.                                      *)
(***************************************************************************)
\* a load_config that takes any file for a configuration of "repoA"
LoadConfigTrusting(cfg) ==
  [raised |-> "", config_exists |-> TRUE, repository_url |-> "repoA",
   branch |-> ""]

\* load_config, config.py:62-115.  The kinds of file: "absent"; "valid", an
\* object with repository_url and deployed_at; "invalid", text that is no
\* JSON or a JSON object, list or string without a required field;
\* "undecodable", bytes that are no UTF-8 (open's read raises
\* UnicodeDecodeError) or a JSON number or null (the "in" test raises
\* TypeError): neither is a JSONDecodeError or an OSError.  url and branch
\* "" stand for None.
LoadConfig(cfg) ==
  IF cfg.kind = "valid"
  THEN [raised |-> "", config_exists |-> TRUE, repository_url |-> cfg.url,
        branch |-> cfg.branch]
  ELSE IF cfg.kind = "undecodable"
  THEN [raised |-> "ValueError", config_exists |-> FALSE,
        repository_url |-> "", branch |-> ""]
  ELSE [raised |-> "", config_exists |-> FALSE, repository_url |-> "",
        branch |-> ""]

SaveFaults == {"open", "write"}

\* save_config, mutated: reports success and writes nothing
SaveConfigUnwritten(repository_url, td, cfg, fault) ==
  [tdir |-> td, config |-> cfg, success |-> TRUE]

\* save_config, config.py:14-59.  The target directory is made first
\* (mkdir with parents, which fails on a regular file).  fault "open": the
\* file cannot be opened for writing; "write": the write stops after the
\* file was truncated.
SaveConfigBranch(repository_url, branch, td, cfg, fault) ==
  IF td = "file"
  THEN [tdir |-> td, config |-> cfg, success |-> FALSE]
  ELSE IF fault = "open"
  THEN [tdir |-> "dir", config |-> cfg, success |-> FALSE]
  ELSE IF fault = "write"
  THEN [tdir |-> "dir",
        config |-> [kind |-> "invalid", url |-> "", branch |-> ""],
        success |-> FALSE]
  ELSE [tdir |-> "dir",
        config |-> [kind |-> "valid", url |-> repository_url, branch |-> branch],
        success |-> TRUE]

\* save_config(source_repo, target_path) as the operations call it
\* (operations.py:124, 303, 322): branch is None
SaveConfig(repository_url, td, cfg, fault) ==
  SaveConfigBranch(repository_url, "", td, cfg, fault)

(***************************************************************************)
(* deploy_operation and update_operation, operations.py, step by step.     *)
(* pc is the step the running operation is about to take; "idle" when no   *)
(* operation runs.                                                         *)
(***************************************************************************)
\* how the removal of the temporary directory can go when the with block is
\* left; `used` failures are injected by the same step already
CleanupOutcomes(r, used) ==
  IF r.tempdir /\ faults + used < MaxFaults THEN {"ok", "fails"} ELSE {"ok"}

\* a with block that leaves its directory behind
LeaveWithKeeping(r, cleanup) == r

\* leaving "with tempfile.TemporaryDirectory()", operations.py:94 and 269:
\* the directory is removed; when the removal raises, the exception reaches
\* "except Exception" (138-140, 337-339), which stores the error in the
\* result and lets the function return it
LeaveWith(r, cleanup) ==
  IF r.tempdir /\ cleanup = "fails"
  THEN [r EXCEPT !.res.error = "Unexpected error"]
  ELSE [r EXCEPT !.tempdir = FALSE]

\* the operation returns res after leaving the with block, if it was in it
Exit(r, res, cleanup) ==
  LeaveWith([r EXCEPT !.finished = TRUE, !.res = res], cleanup)

\* the operation returns its result
Finished(r, res) == Exit(r, res, "ok")

Failed(r, msg) == Finished(r, [r.res EXCEPT !.error = msg])

\* the operation returns with error msg from inside the with block
FailedInWith(r, msg, cleanup) == Exit(r, [r.res EXCEPT !.error = msg], cleanup)

\* the failures a step injected: its own and that of the removal
Injected2(own, cleanup) ==
  faults' = faults + (IF own THEN 1 ELSE 0) + (IF cleanup THEN 1 ELSE 0)

Goto(r, next) == run' = r /\ pc' = next

\* the steps an operation has taken, in the order it took them
Log(r, step) == [r EXCEPT !.log = Append(@, step)]

Return(r) == run' = r /\ pc' = "idle"

\* an operation that does not stop when its backup failed
BackupGateOpen(backup_created) == "u_dryrun"

\* operations.py:229-233: a failed backup ends the update
BackupGate(backup_created) == IF backup_created THEN "u_dryrun" ELSE "return"

\* a prompt whose answer is not followed
ShouldCreateBackupNever(no_backup, answer) == FALSE

\* BackupManager.should_create_backup, backup.py:37-52; answer is what
\* click.confirm returns
ShouldCreateBackup(no_backup, answer) ==
  IF no_backup THEN FALSE ELSE answer = "yes"

\* update_operation, operations.py:163-214: path validation and source
\* repository selection
UpdateBegin ==
  /\ pc = "idle"
  /\ ops < MaxRuns
  /\ Cardinality(DOMAIN vault.snaps) < MaxSnapshots
  /\ \E source_repo \in {"", "repoB"} :
     \E dry_run \in BOOLEAN :
     \E no_backup \in BOOLEAN :
       LET r0 == [NoRun EXCEPT !.kind = "update", !.dry_run = dry_run,
                               !.no_backup = no_backup,
                               !.source_repo = source_repo,
                               !.arg_source = source_repo,
                               !.start = target, !.startVault = vault,
                               !.startConfig = config, !.startSib = sib,
                               !.log = <<"validate_target">>]
           cfg == LoadConfig(config)
           r1 == [r0 EXCEPT !.res.config_loaded = cfg.config_exists]
       IN IF tdir = "absent"
          THEN Return(Failed(r0, "Target path does not exist"))
          ELSE IF tdir = "file"
          THEN Return(Failed(r0, "Target path is not a directory"))
          ELSE IF source_repo # ""
          THEN Goto(r0, "u_backup")
          ELSE IF cfg.raised # ""
          THEN Return(Failed(r0, "Unexpected error"))
          ELSE IF cfg.config_exists /\ cfg.repository_url # ""
          THEN Goto([r1 EXCEPT !.source_repo = cfg.repository_url,
                               !.res.source_from_config = cfg.repository_url],
                    "u_backup")
          ELSE Return(Failed(r1, "No source repository specified and no configuration found"))
  /\ ops' = ops + 1
  /\ last' = NoCall
  /\ prev' = NoCall
  /\ UNCHANGED <<source, target, vault, sib, clock, order, faults, tdir, config>>

\* operations.py:222 with the flag ignored
BackupLogicEnteredAlways(no_backup, dry_run) == ~dry_run

\* operations.py:222: "if not no_backup and not dry_run:"
BackupLogicEntered(no_backup, dry_run) == ~no_backup /\ ~dry_run

\* operations.py:216-226 and 235-237: is there a content tree to back up,
\* and does the user want the backup (backup.py:37-52)
UpdateBackupDecision ==
  /\ pc = "u_backup"
  /\ LET d == DetectClaudeFolder(target)
         r0 == Log(run, "backup_decision")
         r1 == [r0 EXCEPT !.res.backup_needed = TRUE]
     IN IF d = "Corrupted"
        THEN Return(Failed(r0, "Unexpected error"))
        ELSE IF d = "NotFound"
        THEN Goto(r0, "u_dryrun")
        ELSE IF ~BackupLogicEntered(run.no_backup, run.dry_run)
        THEN Goto(r1, "u_dryrun")
        ELSE \E answer \in {"yes", "no", "abort"} :
               LET r2 == [r1 EXCEPT !.answer = answer]
               IN IF answer = "abort"
                  THEN Return(Failed(r2, "Unexpected error"))
                  ELSE IF ShouldCreateBackup(run.no_backup, answer)
                  THEN Goto(r2, "u_create_backup")
                  ELSE Goto(r2, "u_dryrun")
  /\ UNCHANGED <<source, target, vault, sib, clock, order, ops, faults, last,
                 prev, tdir, config>>

\* operations.py:227-233: create the snapshot; its failure ends the update
UpdateCreateBackup ==
  /\ pc = "u_create_backup"
  /\ \E fault \in MayFail(NoBackupFault, BackupFaults(target)) :
       LET out == CreateClaudeBackup(target, vault, clock, fault)
           r1 == [Log(run, "backup") EXCEPT
                             !.tried = TRUE,
                             !.snapshot = out.res.backup_path,
                             !.res.backup_created = out.res.success]
       IN /\ vault' = out.vault
          /\ last' = Call("backup", TRUE, fault # NoBackupFault, out)
          /\ prev' = last
          /\ Injected(fault # NoBackupFault)
          /\ IF BackupGate(out.res.success) = "return"
             THEN Return(Failed(r1, "Backup failed"))
             ELSE Goto(r1, "u_dryrun")
  /\ UNCHANGED <<source, target, sib, clock, order, ops, tdir, config>>

\* operations.py:240, mutated: the dry run goes on to the remote steps
DryRunReturnNever(dry_run) == FALSE

\* operations.py:240: "if dry_run:", the early return of a dry run
DryRunReturn(dry_run) == dry_run

\* operations.py:239-243: a dry run ends here
UpdateDryRunCheck ==
  /\ pc = "u_dryrun"
  /\ IF DryRunReturn(run.dry_run)
     THEN Return(Finished(run, [run.res EXCEPT !.success = TRUE,
                                               !.message = "Dry run completed"]))
     ELSE Goto(run, "remote")
  /\ UNCHANGED <<source, target, vault, sib, clock, order, ops, faults, last,
                 prev, tdir, config>>

\* operations.py:245-266 (update) and 70-91 (deploy): ensure_github_setup
\* and validate_repository_access, each of which may raise
RunGithub ==
  /\ pc = "remote"
  /\ \E setup \in {"ok", "GitHubCLIError", "Exception"} :
     \E access \in {"ok", "Exception"} :
       LET r1 == [Log(run, "ensure_github_setup") EXCEPT
                    !.remote = Append(@, "ensure_github_setup")]
           r2 == [Log(r1, "validate_repository_access") EXCEPT
                    !.remote = Append(@, "validate_repository_access")]
       IN IF setup = "GitHubCLIError"
          THEN Return(Failed(r1, "GitHub CLI error"))
          ELSE IF setup = "Exception"
          THEN Return(Failed(r1, "Unexpected error"))
          ELSE IF access = "Exception"
          THEN Return(Failed(r2, "Repository validation error"))
          ELSE Goto(r2, "clone")
  /\ UNCHANGED <<source, target, vault, sib, clock, order, ops, faults, last,
                 prev, tdir, config>>

\* operations.py:268-276 (update) and 93-101 (deploy): the temporary
\* directory and the clone into it
RunClone ==
  /\ pc = "clone"
  /\ \E outcome \in {"ok", "no tempdir", "Exception"} :
       LET r1 == [Log(run, "clone_repository") EXCEPT
                             !.remote = Append(@, "clone_repository"),
                             !.tempdir = TRUE]
       IN IF outcome = "no tempdir"
          THEN Return(Failed(run, "Unexpected error")) /\ UNCHANGED faults
          ELSE IF outcome = "Exception"
          THEN \E cleanup \in CleanupOutcomes(r1, 0) :
                 /\ Return(FailedInWith(r1, "Repository clone error", cleanup))
                 /\ Injected2(FALSE, cleanup = "fails")
          ELSE Goto(r1, "detect_source") /\ UNCHANGED faults
  /\ UNCHANGED <<source, target, vault, sib, clock, order, ops, last,
                 prev, tdir, config>>

\* an update that makes its snapshot once the source has been cloned
AfterDetectSourceBackup(kind) ==
  IF kind = "update" THEN "u_create_backup" ELSE "d_copy"

\* what follows the detection of the source's .claude: the merge or copy of
\* operations.py:291-297 (update), the copy of 116-118 (deploy)
AfterDetectSource(kind) == IF kind = "update" THEN "u_apply" ELSE "d_copy"

\* operations.py:278-289 (update) and 103-114 (deploy)
RunDetectSource ==
  /\ pc = "detect_source"
  /\ LET d == DetectClaudeFolder(source)
     IN IF d = "ok"
        THEN /\ Goto([run EXCEPT !.res.claude_folder_found = TRUE],
                     AfterDetectSource(run.kind))
             /\ UNCHANGED faults
        ELSE \E cleanup \in CleanupOutcomes(run, 0) :
               /\ Return(FailedInWith(run,
                           IF d = "NotFound"
                           THEN "No .claude folder found in source repository"
                           ELSE "Corrupted .claude folder in source", cleanup))
               /\ Injected2(FALSE, cleanup = "fails")
  /\ UNCHANGED <<source, target, vault, sib, clock, order, ops, last,
                 prev, tdir, config>>

\* an operation that saves the configuration whatever the copy or merge
\* reported
ApplyGateOpen(success) == "save"

\* operations.py:299, 318 (update) and 120 (deploy): the configuration is
\* saved after a copy or merge that reported success, and only then
ApplyGate(success) == IF success THEN "save" ELSE "return"

\* operations.py:291-302, 310-322 and 329-335: merge into the content tree,
\* or copy when there is none
UpdateApply ==
  /\ pc = "u_apply"
  /\ LET d == DetectClaudeFolder(target) IN
     IF d = "Corrupted"
     THEN \E cleanup \in CleanupOutcomes(run, 0) :
            /\ Return(FailedInWith(run, "Update operation error", cleanup))
            /\ Injected2(FALSE, cleanup = "fails")
            /\ UNCHANGED <<target, sib, last, prev>>
     ELSE IF d = "ok"
     THEN \E mfault \in MayFail(NoFault, MergeFaults(Len(WalkOf(source, order)))) :
          \E cleanup \in CleanupOutcomes(run, IF mfault # NoFault THEN 1 ELSE 0) :
            LET out == MergeClaudeFolders(source, target, sib, clock, order,
                                          TRUE, mfault, NoCopyFault)
                r1 == [Log(run, "merge") EXCEPT !.applied = "merge"]
            IN /\ target' = out.target
               /\ sib' = out.sib
               /\ last' = Call("merge", TRUE, mfault # NoFault, out)
               /\ prev' = last
               /\ IF ApplyGate(out.res.success) = "save"
                  THEN /\ Goto([r1 EXCEPT !.res.files_updated = out.res.files_updated,
                                          !.res.files_added = out.res.files_added,
                                          !.res.files_preserved = out.res.files_preserved],
                               "save")
                       /\ Injected2(mfault # NoFault, FALSE)
                  ELSE /\ Return(FailedInWith(r1, "Failed to update", cleanup))
                       /\ Injected2(mfault # NoFault, cleanup = "fails")
     ELSE \E cfault \in MayFail(NoCopyFault,
                        CopyFaultsReached(source, target, FALSE)) :
          \E cleanup \in CleanupOutcomes(run, IF cfault # NoCopyFault THEN 1 ELSE 0) :
            LET out == CopyClaudeFolder(source, target, sib, clock, TRUE, cfault)
                r1 == [Log(run, "copy") EXCEPT !.applied = "copy"]
            IN /\ target' = out.target
               /\ sib' = out.sib
               /\ last' = CallCopy(TRUE, cfault, out)
               /\ prev' = last
               /\ IF ApplyGate(out.res.success) = "save"
                  THEN /\ Goto([r1 EXCEPT !.res.files_added = out.res.files_copied],
                               "save")
                       /\ Injected2(cfault # NoCopyFault, FALSE)
                  ELSE /\ Return(FailedInWith(r1, "Failed to deploy", cleanup))
                       /\ Injected2(cfault # NoCopyFault, cleanup = "fails")
  /\ UNCHANGED <<source, vault, clock, order, ops, tdir, config>>

\* the operation's success, mutated: a failed save fails the operation
SuccessAfterSaveFatal(config_saved) == config_saved

\* operations.py:308, 327 (update) and 128 (deploy): result["success"] = True
\* follows the save whatever save_config answered
SuccessAfterSave(config_saved) == TRUE

\* operations.py:304-309 and 323-328 (update), 124-129 (deploy): the
\* configuration is saved and the operation reports success
RunSaveConfig ==
  /\ pc = "save"
  /\ \E fault \in MayFail("none", SaveFaults) :
     \E cleanup \in CleanupOutcomes(run, IF fault # "none" THEN 1 ELSE 0) :
       LET out == SaveConfig(run.source_repo, tdir, config, fault)
       IN /\ config' = out.config
          /\ tdir' = out.tdir
          /\ Injected2(fault # "none", cleanup = "fails")
          /\ Return(Exit(Log(run, "save_config"),
                         [run.res EXCEPT !.config_saved = out.success,
                                         !.success = SuccessAfterSave(out.success),
                                         !.message = "Successfully"],
                         cleanup))
  /\ UNCHANGED <<source, target, vault, sib, clock, order, ops, last, prev>>

\* deploy_operation, operations.py:44-68: a dry run saves the configuration
\* and returns
DeployBegin ==
  /\ pc = "idle"
  /\ ops < MaxRuns
  /\ \E dry_run \in BOOLEAN :
     \E fault \in MayFail("none", IF dry_run THEN SaveFaults ELSE {}) :
       LET r0 == [NoRun EXCEPT !.kind = "deploy", !.dry_run = dry_run,
                               !.source_repo = "repoB",
                               !.start = target, !.startVault = vault,
                               !.startConfig = config, !.startSib = sib,
                               !.log = <<>>]
           out == SaveConfig("repoB", tdir, config, fault)
       IN IF dry_run
          THEN /\ config' = out.config
               /\ tdir' = out.tdir
               /\ Injected(fault # "none")
               /\ Return(Finished(Log(r0, "save_config"),
                                  [r0.res EXCEPT !.config_saved = out.success,
                                                 !.success = TRUE,
                                                 !.message = "Dry run completed"]))
          ELSE /\ Goto(r0, "remote")
               /\ UNCHANGED <<config, tdir, faults>>
  /\ ops' = ops + 1
  /\ last' = NoCall
  /\ prev' = NoCall
  /\ UNCHANGED <<source, target, vault, sib, clock, order>>

\* operations.py:116-136: copy_claude_folder(source_claude, target_path);
\* copytree makes the target path when it is missing and fails when the
\* target path is a regular file
DeployCopy ==
  /\ pc = "d_copy"
  /\ \E cfault \in MayFail(NoCopyFault,
                   IF tdir = "file" THEN {}
                   ELSE CopyFaultsReached(source, target, TRUE)) :
     \E cleanup \in CleanupOutcomes(run, IF cfault # NoCopyFault THEN 1 ELSE 0) :
       LET out == IF tdir = "file"
                  THEN CopyFailed(target, sib, NoName, BlankResult)
                  ELSE CopyClaudeFolder(source, target, sib, clock, TRUE, cfault)
           r0 == IF tdir = "dir" /\ CopyBacksUp(target, TRUE)
                 THEN Log(run, "create_backup") ELSE run
           r1 == [Log(r0, "copy") EXCEPT !.applied = "copy"]
       IN /\ target' = out.target
          /\ sib' = out.sib
          /\ tdir' = IF tdir = "absent" THEN "dir" ELSE tdir
          /\ last' = CallCopy(TRUE, cfault, out)
          /\ prev' = last
          /\ IF ApplyGate(out.res.success) = "save"
             THEN /\ Goto([r1 EXCEPT !.res.files_copied = out.res.files_copied,
                                     !.res.bytes_copied = out.res.bytes_copied],
                          "save")
                  /\ Injected2(cfault # NoCopyFault, FALSE)
             ELSE /\ Return(FailedInWith(r1,
                              IF out.res.raised # "" THEN "File operation error"
                              ELSE "Failed to deploy", cleanup))
                  /\ Injected2(cfault # NoCopyFault, cleanup = "fails")
  /\ UNCHANGED <<source, vault, clock, order, ops, config>>

(***************************************************************************)
(* SpecMerge: merges of any source tree into any target tree.              *)
(***************************************************************************)
InitMerge ==
  /\ \E fam \in Families :
       /\ source \in TreesOver(fam)
       /\ target \in TreesOver(fam)
  /\ vault = NoVault
  /\ order \in ScanOrders
  /\ clock = 0
  /\ tdir = "dir"
  /\ config = NoConfig
  /\ InitCommon

NextMerge == MergeCall

SpecMerge == InitMerge /\ [][NextMerge]_vars


(***************************************************************************)
(* Claims about merge_claude_folders.  They read the last call: its        *)
(* source (last.src), the target before it (last.pre) and after (target).  *)
(***************************************************************************)
\* the last call was a merge into a target that existed (lines 209-254 ran)
MergedInto == last.op = "merge" /\ last.res.raised = "" /\ Exists(last.pre, RootPath)

\* the relative path contains the name of the local settings file
MatchesLocalSettings(p) == Contains(PathStr(p), SLJ)

\* the source files by what the merge finds at their path in the target
PreservedSet == { p \in FilesOf(last.src) : last.preserve /\ MatchesLocalSettings(p) }

AddedSet == { p \in FilesOf(last.src) \ PreservedSet : ~Exists(last.pre, p) }

UpdatedSet ==
  { p \in FilesOf(last.src) \ PreservedSet :
      IsFile(last.pre, p) /\ last.pre[p].data # last.src[p].data }

IdenticalSet ==
  { p \in FilesOf(last.src) \ PreservedSet :
      IsFile(last.pre, p) /\ last.pre[p].data = last.src[p].data }

\* C3 (P1, no deletion): a file of the target with no file at the same path
\* in the source is still there with the same bytes after the merge, whether
\* the merge succeeded or failed, and the counters count source files only.
C3_NoDeletion ==
  MergedInto =>
    /\ \A p \in FilesOf(last.pre) : ~IsFile(last.src, p) => target[p] = last.pre[p]
    /\ last.res.files_added <= Cardinality(AddedSet)
    /\ last.res.files_updated <= Cardinality(UpdatedSet)
    /\ last.res.files_preserved <= Cardinality(PreservedSet)

\* a merge that changed the target while it held a file the source lacks
C3_Witness ==
  /\ MergedInto
  /\ last.res.files_added + last.res.files_updated > 0
  /\ \E p \in FilesOf(last.pre) : ~IsFile(last.src, p)

\* a failed merge that had changed the target, which held a file the source lacks
C3_WitnessFailed ==
  /\ MergedInto
  /\ ~last.res.success
  /\ target # last.pre
  /\ \E p \in FilesOf(last.pre) : ~IsFile(last.src, p)

\* C4 (P2, preservation): with the default policy, a target file whose
\* relative path matches a preservation pattern has the same bytes after the
\* merge as before, whatever the source holds at that path.
C4_Preservation ==
  (MergedInto /\ last.preserve) =>
    \A p \in FilesOf(last.pre) : MatchesLocalSettings(p) => target[p] = last.pre[p]

\* a successful merge whose source holds other bytes at a preserved path
C4_Witness ==
  /\ MergedInto /\ last.preserve /\ last.res.success
  /\ IsFile(last.pre, <<SLJ>>) /\ IsFile(last.src, <<SLJ>>)
  /\ last.src[<<SLJ>>].data # last.pre[<<SLJ>>].data
  /\ target[<<SLJ>>] = last.pre[<<SLJ>>]

\* two merges in a row of the same source with the same policy
MergedTwice ==
  /\ last.op = "merge" /\ prev.op = "merge"
  /\ last.src = prev.src /\ last.preserve = prev.preserve
  /\ Exists(prev.pre, RootPath) /\ prev.res.raised = ""

SameFiles(t1, t2) == \A p \in Paths : (IsFile(t1, p) \/ IsFile(t2, p)) => t1[p] = t2[p]

C6_MergeEffect ==
  (MergedInto /\ last.res.success) =>
    /\ \A p \in AddedSet \cup UpdatedSet : target[p] = File(last.src[p].data)
    /\ \A p \in IdenticalSet : target[p] = last.pre[p]
    /\ FilesOf(last.src) \ PreservedSet = AddedSet \cup UpdatedSet \cup IdenticalSet
    /\ last.res.files_added = Cardinality(AddedSet)
    /\ last.res.files_updated = Cardinality(UpdatedSet)

\* a successful merge that added one file and overwrote another
C6_Witness ==
  /\ MergedInto /\ last.res.success
  /\ AddedSet # {} /\ UpdatedSet # {}

\* C7: the counters of a successful merge and the files found identical
\* account for every source file exactly once.
C7_Accounting ==
  (MergedInto /\ last.res.success) =>
    /\ last.res.files_added + last.res.files_updated + last.res.files_preserved
         + Cardinality(IdenticalSet) = Cardinality(FilesOf(last.src))
    /\ last.res.files_preserved = Cardinality(PreservedSet)

\* a successful merge with a preserved file and a file added or overwritten
C7_Witness ==
  /\ MergedInto /\ last.res.success
  /\ last.res.files_preserved > 0
  /\ last.res.files_added + last.res.files_updated > 0


\* a merge into an existing target tree that did not report success
MergeFailed ==
  /\ last.op = "merge"
  /\ Exists(last.src, RootPath) /\ Exists(last.pre, RootPath)
  /\ ~last.res.success

\* the source files of the last merge in the order the walk met them
LastWalk == WalkOf(last.src, order)

\* the walk handled the files before position k and none after it
StoppedAt(k) ==
  /\ \A i \in 1..(k - 1) :
       LET p == LastWalk[i]
       IN IF p \in PreservedSet
          THEN target[p] = last.pre[p]
          ELSE target[p] = File(last.src[p].data)
  /\ \A i \in (k + 1)..Len(LastWalk) :
       target[LastWalk[i]] = last.pre[LastWalk[i]]

\* C19: when an operation on the file system fails during the walk of
\* merge_claude_folders, the merge stops at that file, raises nothing and
\* returns success = False with an error; the files added or overwritten
\* before it keep their new content and the files after it are unchanged.
C19_MergeStopsAtFailure ==
  MergeFailed =>
    /\ last.res.raised = ""
    /\ last.res.error # ""
    /\ \E k \in 1..Len(LastWalk) : StoppedAt(k)
    /\ \A p \in FilesOf(last.pre) : ~IsFile(last.src, p) => target[p] = last.pre[p]

\* a merge that failed at its second file or later, after it had added or
\* overwritten a file
C19_Witness ==
  /\ MergeFailed
  /\ \E k \in 2..Len(LastWalk) :
       /\ StoppedAt(k)
       /\ \E i \in 1..(k - 1) : target[LastWalk[i]] # last.pre[LastWalk[i]]

\* a merge that failed before a file it would have added or overwritten
C19_WitnessAhead ==
  /\ MergeFailed
  /\ \E k \in 1..(Len(LastWalk) - 1) :
       /\ StoppedAt(k)
       /\ LastWalk[k + 1] \in AddedSet \cup UpdatedSet

\* the counters of the last merge count the files handled before position k
CountsUpTo(k) ==
  LET done == { LastWalk[i] : i \in 1..(k - 1) }
  IN /\ last.res.files_added = Cardinality(done \cap AddedSet)
     /\ last.res.files_updated = Cardinality(done \cap UpdatedSet)
     /\ last.res.files_preserved = Cardinality(done \cap PreservedSet)

\* a merge found no target tree, copied the source instead, and the copy
\* did not report success
FreshCopyFailed ==
  /\ last.op = "merge"
  /\ Exists(last.src, RootPath) /\ ~Exists(last.pre, RootPath)
  /\ ~last.res.success

\* the counters of a failed merge are those of the files before the failure
C20_MergePartialCounts ==
  MergeFailed => \E k \in 1..Len(LastWalk) : StoppedAt(k) /\ CountsUpTo(k)

\* C20: a merge or a fresh copy that fails part of the way reports the
\* counts accumulated so far: the counters of the result are the numbers of
\* files added, overwritten, preserved or copied before the failure.
C20_PartialCountsReported ==
  /\ C20_MergePartialCounts
  /\ FreshCopyFailed =>
       /\ last.res.files_copied = Cardinality(FilesOf(target))
       /\ last.res.bytes_copied = TotalBytes(target)

\* a fresh copy that failed after it had copied a file, which is in the
\* target
C20_Witness ==
  /\ FreshCopyFailed
  /\ FilesOf(target) # {}

\* a merge that failed after it had counted a file
C20_WitnessMerge ==
  /\ MergeFailed
  /\ last.res.files_added + last.res.files_updated + last.res.files_preserved > 0

\* the last call was a merge of a source directory into a target path that
\* did not exist, and no operation on the file system failed
MergedIntoNothing ==
  /\ last.op = "merge"
  /\ IsDir(last.src, RootPath)
  /\ ~Exists(last.pre, RootPath)
  /\ ~last.injected

\* C24: when the target path does not exist, merge_claude_folders behaves as
\* a fresh copy: every source file is under the target path with the same
\* bytes, the local settings included, no backup is made, and the result is
\* the result of copy_claude_folder: success with files_copied equal to the
\* number of source files, and no merge counter.
C24_MergeDegradesToCopy ==
  MergedIntoNothing =>
    /\ last.res = CopyClaudeFolder(last.src, last.pre, last.preSib, last.now,
                                   FALSE, NoCopyFault).res
    /\ last.res.success /\ last.res.raised = ""
    /\ \A p \in Paths : target[p] = last.src[p]
    /\ last.res.files_copied = Cardinality(FilesOf(last.src))
    /\ last.res.files_added = 0 /\ last.res.files_updated = 0
    /\ last.res.files_preserved = 0
    /\ ~last.res.backup_created
    /\ sib = last.preSib

\* a merge into a missing target whose source holds the local settings and
\* another file
C24_Witness ==
  /\ MergedIntoNothing
  /\ last.res.success
  /\ IsFile(target, <<SLJ>>) /\ IsFile(target, <<SJ>>)
  /\ last.preserve

(***************************************************************************)
(* SpecBackup: snapshots of any target tree, at any pace.                  *)
(***************************************************************************)
InitBackup ==
  /\ \E fam \in Families : target \in TreesOver(fam)
  /\ source = NoTree
  /\ vault \in {NoVault, FileVault}
  /\ order \in ScanOrders
  /\ clock = 0
  /\ tdir = "dir"
  /\ config = NoConfig
  /\ InitCommon

NextBackup == BackupCall \/ Tick

SpecBackup == InitBackup /\ [][NextBackup]_vars

\* the last call was create_claude_backup and it reported success
BackedUp == last.op = "backup" /\ last.res.success

\* C8 (P4, backup completeness): a successful create_claude_backup leaves,
\* under the name it returns, a snapshot in the vault directory with the
\* files of the content tree: as many, as many bytes, each at the same
\* relative path with the same bytes.
C8_BackupComplete ==
  BackedUp =>
    /\ vault.kind = "dir"
    /\ last.res.backup_path \in DOMAIN vault.snaps
    /\ LET snap == vault.snaps[last.res.backup_path]
       IN /\ FilesOf(snap) = FilesOf(last.pre)
          /\ \A p \in FilesOf(last.pre) : snap[p] = last.pre[p]
          /\ Cardinality(FilesOf(snap)) = Cardinality(FilesOf(last.pre))
          /\ TotalBytes(snap) = TotalBytes(last.pre)

\* a successful snapshot of a tree with two files and at least one byte
C8_Witness ==
  /\ BackedUp
  /\ Cardinality(FilesOf(last.pre)) >= 2
  /\ TotalBytes(last.pre) >= 1
  /\ IsFile(last.pre, <<SLJ>>)

\* C9 (P5, snapshot uniqueness): a successful create_claude_backup returns a
\* name that was not in the vault before the call: the timestamp when that
\* name was free, otherwise the timestamp with the smallest suffix N >= 1
\* that was free; and no call changes a snapshot that was there before.
C9_UniqueSnapshot ==
  last.op = "backup" =>
    LET taken == DOMAIN last.preVault.snaps
        nm == last.res.backup_path
    IN /\ \A n \in taken : n \in DOMAIN vault.snaps /\ vault.snaps[n] = last.preVault.snaps[n]
       /\ last.res.success =>
            /\ nm \notin taken
            /\ nm.ts = last.now
            /\ (Name(last.now, 0) \notin taken) => nm.n = 0
            /\ (Name(last.now, 0) \in taken) =>
                 /\ nm.n >= 1
                 /\ \A k \in 1..(nm.n - 1) : Name(last.now, k) \in taken

\* a third snapshot within one second: the names <ts> and <ts>_1 were taken
C9_Witness ==
  /\ BackedUp
  /\ last.res.backup_path = Name(last.now, 2)
  /\ Name(last.now, 0) \in DOMAIN last.preVault.snaps
  /\ Name(last.now, 1) \in DOMAIN last.preVault.snaps

\* a step of the last create_claude_backup failed: the vault could not be
\* made (a regular file stands there, or mkdir raised), or the copy raised
\* (the content tree is not a directory, or an I/O failure)
BackupStepFailed ==
  /\ last.op = "backup"
  /\ Exists(last.pre, RootPath)
  /\ last.injected \/ last.preVault.kind = "file" \/ ~IsDir(last.pre, RootPath)

C11_WitnessMissing == last.op = "backup" /\ ~Exists(last.pre, RootPath)

(***************************************************************************)
(* SpecUpdate: runs of update_operation.                                   *)
(***************************************************************************)
UpdateFamilies == { {<<SJ>>, <<SLJ>>}, {<<CommandsName>>} }

\* what a repository may hold at <clone>/.claude: every file has the bytes
\* <<1>>, so that a target file is the same as the repository's or not
RepoTrees(fam) ==
  { t \in TreesOver(fam) : \A p \in Paths : IsFile(t, p) => t[p].data = <<1>> }

DefaultOrder == CHOOSE o \in ScanOrders : o[1] = <<SJ>>

ConfigFor(url) == [kind |-> "valid", url |-> url, branch |-> ""]

InitUpdate ==
  /\ \E fam \in UpdateFamilies :
       /\ source \in RepoTrees(fam)
       /\ target \in TreesOver(fam)
  /\ vault \in {NoVault, FileVault}
  /\ config \in {NoConfig, ConfigFor("repoA")}
  /\ tdir \in {"dir", "file", "absent"}
  /\ tdir # "dir" => target = NoTree /\ vault = NoVault /\ config = NoConfig
  /\ order = DefaultOrder
  /\ clock = 0
  /\ InitCommon

NextUpdate ==
  \/ UpdateBegin
  \/ UpdateBackupDecision
  \/ UpdateCreateBackup
  \/ UpdateDryRunCheck
  \/ RunGithub
  \/ RunClone
  \/ RunDetectSource
  \/ UpdateApply
  \/ RunSaveConfig
  \/ Tick

SpecUpdate == InitUpdate /\ [][NextUpdate]_vars

\* the update asked for a snapshot and create_claude_backup did not make it
BackupFailedInRun == run.kind = "update" /\ run.tried /\ ~run.res.backup_created

\* C1 (P6): when an update asks for a backup and the backup fails, the update
\* has ended at once: with a failure whose error names the backup failure,
\* the target content tree as it was when the update began, no GitHub
\* validation and no clone attempted, and no merge or copy run.
C1_BackupFailureEndsUpdate ==
  BackupFailedInRun =>
    /\ pc = "idle"
    /\ run.finished
    /\ ~run.res.success
    /\ run.res.error = "Backup failed"
    /\ target = run.start
    /\ run.remote = <<>>
    /\ run.applied = "none"

\* an update whose backup failed because .claude-backup is a regular file
C1_Witness == BackupFailedInRun /\ run.finished /\ vault = FileVault

\* an update whose backup failed part of the way, leaving a partial snapshot
C1_WitnessPartial ==
  /\ BackupFailedInRun
  /\ run.finished
  /\ DOMAIN vault.snaps # DOMAIN run.startVault.snaps

\* the update merged, and a file the target held when the update began has
\* other bytes now
OverwrittenByMerge ==
  /\ run.kind = "update"
  /\ run.applied = "merge"
  /\ \E p \in FilesOf(run.start) : target[p] # run.start[p]

\* the snapshot the update made holds the content tree as the update found it
SnapshotOfStart ==
  /\ run.res.backup_created
  /\ run.snapshot \in DOMAIN vault.snaps
  /\ vault.snaps[run.snapshot] = run.start

\* C2 as stated: an update's merge overwrites a file of the target content
\* tree only if the update created a snapshot of that tree before.
C2_OverwriteOnlyAfterSnapshot == OverwrittenByMerge => SnapshotOfStart

\* C2 amended: an update's merge overwrites a file of the target content tree
\* only if the update created a snapshot of that tree before, or the backup
\* was skipped: by the no-backup flag or by the user's answer to the prompt.
C2_OverwriteOnlyAfterSnapshotOrSkip ==
  OverwrittenByMerge =>
    \/ SnapshotOfStart
    \/ run.no_backup
    \/ run.answer = "no"

\* an update that overwrote a file after making its snapshot
C2_Witness == OverwrittenByMerge /\ SnapshotOfStart /\ run.finished

\* an update that overwrote a file with the backup declined at the prompt
C2_WitnessDeclined == OverwrittenByMerge /\ run.answer = "no" /\ ~run.no_backup

(***************************************************************************)
(* Spec: library calls, deploys and updates on one target, in any order.   *)
(***************************************************************************)
\* the vault after one snapshot of tree t taken at time ts
VaultWith(t, ts) ==
  [kind |-> "dir", snaps |-> Put(EmptyMap, Name(ts, 0), CopyTree(t, {}))]

\* the target holds one file, which the repository holds with other bytes;
\* the vault is absent or holds a snapshot taken a second ago; all
\* operations happen within one second
Init ==
  /\ source \in { t \in RepoTrees({<<SJ>>}) : IsFile(t, <<SJ>>) }
  /\ target \in { t \in TreesOver({<<SJ>>}) :
                    IsFile(t, <<SJ>>) /\ t[<<SJ>>].data = <<>> }
  /\ vault \in {NoVault, VaultWith(target, 0)}
  /\ clock = 1
  /\ config = NoConfig
  /\ tdir = "dir"
  /\ order = DefaultOrder
  /\ InitCommon

Next ==
  \/ BackupCall
  \/ MergeCall
  \/ CopyCall
  \/ DeployBegin
  \/ DeployCopy
  \/ UpdateBegin
  \/ UpdateBackupDecision
  \/ UpdateCreateBackup
  \/ UpdateDryRunCheck
  \/ UpdateApply
  \/ RunGithub
  \/ RunClone
  \/ RunDetectSource
  \/ RunSaveConfig

Spec == Init /\ [][Next]_vars

\* C10: no step of create_claude_backup, merge_claude_folders,
\* copy_claude_folder, deploy_operation or update_operation removes a snapshot
\* from the vault or changes a file of one: every snapshot of the vault is in
\* the vault after the step, with the same tree.
C10_SnapshotsImmutable ==
  [][\A n \in DOMAIN vault.snaps :
       n \in DOMAIN vault'.snaps /\ vault'.snaps[n] = vault.snaps[n]]_vars

\* an update that found a snapshot in the vault, made a second one and
\* overwrote a file of the target
C10_Witness ==
  /\ run.kind = "update"
  /\ run.finished
  /\ DOMAIN run.startVault.snaps # {}
  /\ SnapshotOfStart
  /\ OverwrittenByMerge
  /\ Cardinality(DOMAIN vault.snaps) > 1

\* the steps of the running operation that call the remote repository, and
\* those that back the target up (the vault snapshot of update_operation,
\* the .claude.backup.<ts> directory of copy_claude_folder)
RemoteSteps == {"validate_repository_access", "clone_repository"}

BackupSteps == {"backup", "create_backup"}

Took(step) == \E i \in DOMAIN run.log : run.log[i] = step

\* every backup step of the operation came before every remote call
BackupsBeforeRemote ==
  \A i \in DOMAIN run.log : \A j \in DOMAIN run.log :
    (run.log[i] \in RemoteSteps /\ run.log[j] \in BackupSteps) => j < i

\* no remote call followed a backup that failed
NoRemoteAfterFailedBackup ==
  (run.tried /\ ~run.res.backup_created) => \A s \in RemoteSteps : ~Took(s)

C12_WitnessDeploy ==
  /\ run.kind = "deploy"
  /\ Took("create_backup")
  /\ run.finished /\ run.res.success

\* the place of a step in the order of update_operation's phases
PhaseRank(step) ==
  CASE step = "validate_target" -> 1
    [] step = "backup_decision" -> 2
    [] step = "backup" -> 3
    [] step = "ensure_github_setup" -> 4
    [] step = "validate_repository_access" -> 5
    [] step = "clone_repository" -> 6
    [] step \in {"merge", "copy"} -> 7
    [] step = "save_config" -> 8
    [] OTHER -> 0

\* the copy or merge of the running operation was made and reported success
AppliedWithSuccess ==
  /\ run.applied \in {"merge", "copy"}
  /\ last.op = run.applied
  /\ last.res.success

\* C13: the steps of an update come in the order validate target path,
\* backup decision, backup creation, remote validation, clone, copy or merge,
\* save_config, each at most once; the backup is created only when chosen;
\* save_config is called only after the copy or merge of the same update
\* reported success, and never after one that failed.
C13_UpdatePhaseOrder ==
  run.kind = "update" =>
    /\ Len(run.log) >= 1 /\ run.log[1] = "validate_target"
    /\ \A i \in DOMAIN run.log : PhaseRank(run.log[i]) >= 1
    /\ \A i \in DOMAIN run.log : \A j \in DOMAIN run.log :
         i < j => PhaseRank(run.log[i]) < PhaseRank(run.log[j])
    /\ Took("backup") => run.answer = "yes" /\ ~run.no_backup /\ ~run.dry_run
    /\ Took("save_config") => AppliedWithSuccess /\ run.finished
    /\ (run.applied # "none" /\ ~last.res.success) => ~Took("save_config")
    /\ (run.finished /\ run.res.success /\ ~run.dry_run) => Took("save_config")

\* an update that went through every phase
C13_Witness ==
  /\ run.kind = "update"
  /\ run.finished /\ run.res.success
  /\ Len(run.log) = 8

\* an update whose merge failed and which ended there
C13_WitnessFailed ==
  /\ run.kind = "update"
  /\ run.finished
  /\ run.applied = "merge" /\ ~last.res.success

\* C14: an update in dry-run mode changes nothing: the vault holds the
\* snapshots it held at the start, no remote call and no clone is made, the
\* content tree of the target is as it was, no sibling backup is made and
\* the configuration file is not written.
C14_UpdateDryRunChangesNothing ==
  (run.kind = "update" /\ run.dry_run) =>
    /\ vault = run.startVault
    /\ target = run.start
    /\ config = run.startConfig
    /\ sib = run.startSib
    /\ run.remote = <<>>
    /\ ~run.tempdir
    /\ run.applied = "none"
    /\ run.snapshot = NoName /\ ~run.res.backup_created
    /\ \A i \in DOMAIN run.log :
         run.log[i] \in {"validate_target", "backup_decision"}
    /\ last = NoCall

\* a dry-run update of a target that has a content tree and a vault, ended
\* with success
C14_Witness ==
  /\ run.kind = "update" /\ run.dry_run
  /\ run.finished /\ run.res.success
  /\ run.res.backup_needed
  /\ ~run.no_backup
  /\ Exists(target, RootPath)

\* the update was called without a source argument: either no source was
\* found at all, or the configuration file was read to find one
NoSourceArgument == run.source_repo = "" \/ run.res.config_loaded

\* C15: update_operation called with dry_run set and no source argument on
\* an existing directory returns success = True, dry_run = True and
\* files_updated = 0.
C15_DryRunWithoutSourceSucceeds ==
  ( /\ run.kind = "update" /\ run.finished
    /\ run.dry_run /\ NoSourceArgument
    /\ tdir = "dir" ) =>
    /\ run.res.success
    /\ run.dry_run
    /\ run.res.files_updated = 0

(***************************************************************************)
(* SpecDeploy: deploys onto a target path that is a directory, a regular   *)
(* file or missing.                                                        *)
(***************************************************************************)
InitDeploy ==
  /\ \E fam \in UpdateFamilies :
       /\ source \in RepoTrees(fam)
       /\ target \in TreesOver(fam)
  /\ vault = NoVault
  /\ config \in {NoConfig, ConfigFor("repoA")}
  /\ tdir \in {"dir", "file", "absent"}
  /\ tdir # "dir" => target = NoTree /\ config = NoConfig
  /\ order = DefaultOrder
  /\ clock = 0
  /\ InitCommon

NextDeploy ==
  \/ DeployBegin
  \/ RunGithub
  \/ RunClone
  \/ RunDetectSource
  \/ DeployCopy
  \/ RunSaveConfig

SpecDeploy == InitDeploy /\ [][NextDeploy]_vars

\* a deploy in dry-run mode has returned
DeployDryRunDone == run.kind = "deploy" /\ run.dry_run /\ run.finished

\* a finished dry-run deploy made no remote call, no clone and no copy, and
\* reports success with files_copied = 0
DryRunDeployIdle ==
  /\ run.remote = <<>>
  /\ ~Took("clone_repository")
  /\ run.applied = "none" /\ last = NoCall
  /\ target = run.start /\ sib = run.startSib /\ vault = run.startVault
  /\ run.res.success
  /\ run.res.files_copied = 0 /\ run.res.bytes_copied = 0

C16_WitnessNotSaved ==
  /\ DeployDryRunDone
  /\ run.res.success /\ ~run.res.config_saved
  /\ tdir = "file"

\* an update found no content tree in the target and copied the source with
\* success
FreshCopyDone ==
  /\ run.kind = "update" /\ run.finished
  /\ run.applied = "copy"
  /\ last.op = "copy" /\ last.res.success
  /\ ~Exists(run.start, RootPath)

\* C17: an update of a target directory that has no content tree makes a
\* fresh copy of the source tree, its outcome has fresh_deploy = true and
\* reports the copy as files_copied and bytes_copied.
C17_FreshDeployFlagged ==
  FreshCopyDone =>
    /\ target = CopyTree(source, {})
    /\ run.res.fresh_deploy
    /\ run.res.files_copied = last.res.files_copied
    /\ run.res.bytes_copied = last.res.bytes_copied

\* what the outcome of that update does hold: the copy is made and is
\* counted as files_added, with nothing updated or preserved
C17_FreshCopyCountedAsAdded ==
  FreshCopyDone =>
    /\ target = CopyTree(source, {})
    /\ run.res.files_added = last.res.files_copied
    /\ run.res.files_added = Cardinality(FilesOf(source))
    /\ run.res.files_updated = 0 /\ run.res.files_preserved = 0
    /\ ~run.res.fresh_deploy
    /\ run.res.files_copied = 0 /\ run.res.bytes_copied = 0

\* a fresh copy of a source tree that holds files of non-zero size
C17_Witness ==
  /\ FreshCopyDone
  /\ run.res.success
  /\ last.res.files_copied > 0 /\ last.res.bytes_copied > 0

\* a deploy or update whose copy or merge reported success has returned
\* without having saved the configuration
SaveFailedAfterApply ==
  /\ run.kind \in {"deploy", "update"} /\ run.finished
  /\ AppliedWithSuccess
  /\ ~run.res.config_saved

\* what the copy or merge of the running operation put in the target is
\* there: the whole source tree after a copy, every added or overwritten
\* file after a merge
AppliedFilesInPlace ==
  IF run.applied = "copy"
  THEN target = CopyTree(last.src, {})
  ELSE /\ \A p \in AddedSet \cup UpdatedSet : target[p] = File(last.src[p].data)
       /\ \A p \in FilesOf(last.pre) : ~IsFile(last.src, p) => target[p] = last.pre[p]

\* C18: when the copy or merge of a deploy or update succeeded and saving
\* the configuration failed, the operation reports success = True with
\* config_saved = False, and the files deployed or merged are in place.
C18_SaveFailureNotFatal ==
  SaveFailedAfterApply =>
    /\ Took("save_config")
    /\ run.res.success
    /\ AppliedFilesInPlace
    /\ config = run.startConfig \/ config.kind = "invalid"

\* an update whose merge overwrote a file and whose save failed
C18_Witness ==
  /\ SaveFailedAfterApply
  /\ run.kind = "update" /\ run.applied = "merge"
  /\ UpdatedSet # {}

\* a deploy whose copy succeeded and whose save failed
C18_WitnessDeploy ==
  /\ SaveFailedAfterApply
  /\ run.kind = "deploy" /\ run.applied = "copy"

\* a deploy or update has returned
RunReturned == run.kind \in {"deploy", "update"} /\ run.finished

\* an operation copied or merged and saved with success, and the removal of
\* its temporary directory failed when it left the with block
CleanupFailedAfterSuccess ==
  /\ RunReturned
  /\ run.res.success
  /\ run.tempdir

\* C21: on every return of deploy_operation and update_operation the result
\* carries a boolean success; success = False implies a non-empty error and
\* success = True implies that error is None.
C21_SuccessXorError ==
  RunReturned =>
    /\ run.res.success \in BOOLEAN
    /\ ~run.res.success => run.res.error # ""
    /\ run.res.success => run.res.error = ""

\* what holds on every return: a failure carries an error, and a success
\* carries none unless the temporary directory could not be removed
C21_ErrorUnlessCleanSuccess ==
  RunReturned =>
    /\ run.res.success \in BOOLEAN
    /\ ~run.res.success => run.res.error # ""
    /\ (run.res.success /\ ~run.tempdir) => run.res.error = ""
    /\ (run.res.success /\ run.tempdir) => run.res.error = "Unexpected error"

\* a successful run that returned an error all the same
C21_Witness ==
  /\ CleanupFailedAfterSuccess
  /\ run.res.error # ""
  /\ Took("save_config")

C22_WitnessLeft == RunReturned /\ run.tempdir /\ ~run.res.success

(***************************************************************************)
(* SpecCopy: copy_claude_folder of any source tree into any target.        *)
(***************************************************************************)
InitCopy ==
  /\ \E fam \in Families :
       /\ source \in TreesOver(fam)
       /\ target \in TreesOver(fam)
  /\ vault = NoVault
  /\ order = DefaultOrder
  /\ clock = 0
  /\ tdir = "dir"
  /\ config = NoConfig
  /\ InitCommon

NextCopy == CopyCall

(***************************************************************************)
(* Inspection of a content tree: detect_claude_folder,                     *)
(* get_claude_folder_info and validate_claude_folder_structure, over the   *)
(* trees with a commands directory, a nested commands directory and a      *)
(* command file beside them.                                               *)
(***************************************************************************)
InspectFamily ==
  { <<AMd>>, <<CommandsName>>, <<CommandsName, AMd>>,
    <<CommandsName, CommandsName>>, <<CommandsName, CommandsName, AMd>> }

InitInspect ==
  /\ source = [p \in Paths |-> Absent]
  /\ target \in TreesOver(InspectFamily)
  /\ vault = NoVault
  /\ order = DefaultOrder
  /\ clock = 0
  /\ tdir = "dir"
  /\ config = NoConfig
  /\ InitCommon

NextInspect == DetectCall \/ InfoCall \/ ValidateCall

SpecInspect == InitInspect /\ [][NextInspect]_vars

SpecCopy == InitCopy /\ [][NextCopy]_vars

\* the last call was copy_claude_folder of a source directory into a target
\* without content tree, and no operation on the file system failed
FreshCopied ==
  /\ last.op = "copy"
  /\ IsDir(last.src, RootPath)
  /\ ~Exists(last.pre, RootPath)
  /\ ~last.injected

\* C23: copy_claude_folder into a target directory that has no content tree
\* copies every file of the source tree to the same relative path with the
\* same bytes, and reports success, files_copied = the number of source
\* files and bytes_copied = their total size; no backup is created.
C23_FreshCopyComplete ==
  FreshCopied =>
    /\ last.res.raised = ""
    /\ last.res.success /\ last.res.error = ""
    /\ \A p \in Paths : target[p] = last.src[p]
    /\ last.res.files_copied = Cardinality(FilesOf(last.src))
    /\ last.res.bytes_copied = SumSizes(last.src, FilesOf(last.src))
    /\ ~last.res.backup_created /\ last.res.backup_path = NoName
    /\ sib = last.preSib

\* a fresh copy of a source with a nested file and a file at the top
C23_Witness ==
  /\ FreshCopied
  /\ last.res.success
  /\ IsFile(last.src, <<CommandsName, AMd>>) /\ IsFile(last.src, <<SJ>>)
  /\ last.res.bytes_copied > 0


(***************************************************************************)
(* Claims about the inspection of a content tree.                          *)
(***************************************************************************)
\* C25: detect_claude_folder answers NotFound exactly when .claude does not
\* exist, Corrupted exactly when .claude is not a directory or
\* .claude/commands exists and is not a directory, and returns the path in
\* every other state, .claude/commands absent included; the call leaves the
\* target tree, the sibling backups and the vault as they were.
C25_DetectClassifies ==
  last.op = "detect" =>
    /\ last.res.raised \in {"NotFound", "Corrupted", ""}
    /\ (last.res.raised = "NotFound") = (last.pre[RootPath].kind = "absent")
    /\ (last.res.raised = "Corrupted") =
         (\/ last.pre[RootPath].kind = "file"
          \/ last.pre[<<CommandsName>>].kind = "file")
    /\ (last.res.raised = "") =
         (/\ last.pre[RootPath].kind = "dir"
          /\ last.pre[<<CommandsName>>].kind \in {"absent", "dir"})
    /\ target = last.pre
    /\ sib = last.preSib
    /\ vault = last.preVault

\* a detect call on a tree whose commands entry is a regular file, and one
\* on a tree without a commands entry
C25_Witness ==
  /\ last.op = "detect" /\ last.pre[<<CommandsName>>].kind = "file"
  /\ prev.op = "detect" /\ prev.pre[RootPath].kind = "dir"

C25_WitnessNoCommands ==
  /\ last.op = "detect"
  /\ last.pre[RootPath].kind = "dir"
  /\ last.pre[<<CommandsName>>].kind = "absent"
  /\ last.res.raised = ""

\* the .md files directly inside <root>/commands
DirectCommandFiles(t) ==
  { p \in RelPaths :
      /\ Len(p) = 2 /\ p[1] = CommandsName
      /\ t[p].kind = "file"
      /\ p[2][Len(p[2])] = ".md" }

\* C26: the command count of get_claude_folder_info is the number of .md
\* files directly inside <root>/commands, and so equals the command count
\* of validate_claude_folder_structure on the same tree.
C26_CommandCountDirect ==
  /\ last.op = "info" =>
       last.res.command_count = Cardinality(DirectCommandFiles(last.pre))
  /\ (last.op = "info" /\ prev.op = "validate" /\ prev.pre = last.pre) =>
       last.res.command_count = prev.res.command_count

\* validate_claude_folder_structure alone counts the direct .md files
C26_ValidateCountsDirect ==
  last.op = "validate" =>
    last.res.command_count = Cardinality(DirectCommandFiles(last.pre))

\* both functions ran on a tree holding commands/commands/a.md and the
\* two counts differ
C26_Witness ==
  /\ last.op = "info" /\ prev.op = "validate" /\ prev.pre = last.pre
  /\ last.pre[<<CommandsName, CommandsName, AMd>>].kind = "file"
  /\ last.res.command_count # prev.res.command_count

(***************************************************************************)
(* Claims about the update's no-backup flag.                               *)
(***************************************************************************)
\* the update passed its backup decision and has taken no later step
AtBackupDecision ==
  /\ run.kind = "update"
  /\ Len(run.log) = 2 /\ run.log[2] = "backup_decision"

\* C27: an update run with the no-backup flag never asks the backup
\* confirmation, never creates a snapshot and reports backup_created False;
\* the step that follows its backup decision is the remote validation, and
\* after the decision it goes on to the remote steps unless the target tree
\* is corrupted or the run is a dry run; when it succeeds it has validated
\* the remote, cloned and merged or copied.
C27_NoBackupSkipsBackup ==
  (run.kind = "update" /\ run.no_backup) =>
    /\ run.answer = "none"
    /\ ~run.tried /\ run.snapshot = NoName
    /\ ~Took("backup")
    /\ vault = run.startVault
    /\ ~run.res.backup_created
    /\ \A i \in DOMAIN run.log :
         (run.log[i] = "backup_decision" /\ i < Len(run.log)) =>
           run.log[i + 1] = "ensure_github_setup"
    /\ (AtBackupDecision /\ ~run.dry_run
          /\ DetectClaudeFolder(run.start) # "Corrupted") =>
         (~run.finished /\ pc \in {"u_dryrun", "remote"})
    /\ (run.finished /\ run.res.success /\ ~run.dry_run) =>
         /\ Took("validate_repository_access") /\ Took("clone_repository")
         /\ run.applied \in {"merge", "copy"}

\* an update with the flag on an existing tree that merged with success
C27_Witness ==
  /\ run.kind = "update" /\ run.no_backup /\ ~run.dry_run
  /\ DetectClaudeFolder(run.start) = "ok"
  /\ run.finished /\ run.res.success
  /\ run.applied = "merge"
  /\ target # run.start

(***************************************************************************)
(* Claims about corrupted content trees in a deploy or an update.          *)
(***************************************************************************)
\* .claude is a regular file, or .claude/commands exists and is no directory
TreeCorrupted(t) ==
  \/ t[RootPath].kind = "file"
  \/ t[RootPath].kind = "dir" /\ t[CommandsPath].kind = "file"

\* the operation reached its step on the target's content tree
TargetTreeInvolved == Took("backup_decision") \/ Took("copy")

\* .claude and .claude/commands of the target are what they were at the start
CorruptedPathKept ==
  /\ target[RootPath] = run.start[RootPath]
  /\ target[CommandsPath] = run.start[CommandsPath]

\* C28: a deploy or update whose target tree or source tree is corrupted
\* ends in failure, and the corrupted path is left exactly as it was.
C28_CorruptedIsFatal ==
  run.kind \in {"deploy", "update"} =>
    /\ (TreeCorrupted(run.start) /\ TargetTreeInvolved) =>
         /\ CorruptedPathKept
         /\ run.finished => ~run.res.success
    /\ (TreeCorrupted(source) /\ run.finished /\ ~run.dry_run) =>
         ~run.res.success

\* what holds: the same, except for a deploy over a target whose .claude is
\* a directory with a regular file at .claude/commands
C28_CorruptedIsFatalButDeployTarget ==
  run.kind \in {"deploy", "update"} =>
    /\ (TreeCorrupted(run.start) /\ TargetTreeInvolved
          /\ (run.kind = "update" \/ run.start[RootPath].kind = "file")) =>
         /\ CorruptedPathKept
         /\ run.finished => ~run.res.success
    /\ (TreeCorrupted(source) /\ run.finished /\ ~run.dry_run) =>
         /\ ~run.res.success
         /\ target = run.start

\* a deploy that succeeded over a target whose .claude/commands was a
\* regular file, and replaced it
C28_Witness ==
  /\ run.kind = "deploy" /\ run.finished /\ run.res.success
  /\ run.start[RootPath].kind = "dir"
  /\ run.start[CommandsPath].kind = "file"
  /\ target[CommandsPath].kind # "file"

\* the runs that failed on a corrupted tree: at the target, at the source
C28_WitnessTarget ==
  /\ run.finished /\ ~run.res.success
  /\ TreeCorrupted(run.start) /\ TargetTreeInvolved
  /\ target = run.start

C28_WitnessSource ==
  /\ run.finished /\ ~run.res.success
  /\ TreeCorrupted(source)
  /\ run.res.error = "Corrupted .claude folder in source"

(***************************************************************************)
(* Claims about the preservation test of merge_claude_folders.             *)
(***************************************************************************)
\* the source files whose relative path is settings.local.json or whose
\* file name is settings.local.json
NamedLocalSettings ==
  { p \in FilesOf(last.src) : p = <<SLJ>> \/ p[Len(p)] = SLJ }

\* C29: with the default policy a merge counts as preserved and skips
\* exactly the source files whose relative path or file name is
\* settings.local.json; every other source file, one named
\* settings.local.json.bak included, is added or overwritten.
C29_PreservedExactlyByName ==
  (MergedInto /\ last.preserve /\ last.res.success) =>
    /\ last.res.files_preserved = Cardinality(NamedLocalSettings)
    /\ \A p \in NamedLocalSettings : target[p] = last.pre[p]
    /\ \A p \in FilesOf(last.src) \ NamedLocalSettings : target[p] = last.src[p]

\* what holds: the files skipped are those whose relative path contains
\* settings.local.json
C29_PreservedBySubstring ==
  (MergedInto /\ last.preserve /\ last.res.success) =>
    /\ last.res.files_preserved = Cardinality(PreservedSet)
    /\ NamedLocalSettings \subseteq PreservedSet
    /\ \A p \in PreservedSet : target[p] = last.pre[p]
    /\ \A p \in FilesOf(last.src) \ PreservedSet : target[p] = last.src[p]

\* a successful merge whose source holds settings.local.json.bak with other
\* bytes than the target's: the file is counted as preserved and not written
C29_Witness ==
  /\ MergedInto /\ last.preserve /\ last.res.success
  /\ IsFile(last.src, <<SLJBak>>)
  /\ last.pre[<<SLJBak>>] # last.src[<<SLJBak>>]
  /\ target[<<SLJBak>>] = last.pre[<<SLJBak>>]
  /\ last.res.files_preserved = Cardinality(NamedLocalSettings) + 1

(***************************************************************************)
(* Claims about a copy whose backup cannot be made.                        *)
(***************************************************************************)
\* the last call was a copy over an existing target with the backup
\* enabled, and create_backup raised: the target is no directory, or the
\* copy of the target stopped part-way and left what it had written
BackupFailedInCopy ==
  /\ last.op = "copy" /\ last.preserve
  /\ last.res.raised = ""
  /\ Exists(last.pre, RootPath)
  /\ ~last.res.success
  /\ (~IsDir(last.pre, RootPath) \/ sib # last.preSib)

\* C30: when copy_claude_folder finds an existing target with the backup
\* enabled and creating the backup fails, the target content tree is what
\* it was before the call and the result is a failure with an error.
C30_BackupFailureLeavesTarget ==
  BackupFailedInCopy =>
    /\ target = last.pre
    /\ ~last.res.success
    /\ last.res.error # ""
    /\ ~last.res.backup_created /\ last.res.backup_path = NoName
    /\ last.res.files_copied = 0

\* a copy over a target with files whose backup stopped part-way, the
\* source holding other content than the target
C30_Witness ==
  /\ BackupFailedInCopy
  /\ last.injected
  /\ FilesOf(last.pre) # {}
  /\ last.src # last.pre
  /\ sib # last.preSib

\* a copy over a regular file named .claude
C30_WitnessFile ==
  /\ BackupFailedInCopy
  /\ IsFile(last.pre, RootPath)
  /\ sib = last.preSib

(***************************************************************************)
(* SpecConfig: save_config and load_config called on one target directory. *)
(***************************************************************************)
\* what target/specli.settings.json may be before a call
ConfigFiles ==
  { NoConfig, ConfigFor("repoA"), ConfigFor(""),
    [kind |-> "invalid", url |-> "", branch |-> ""],
    [kind |-> "undecodable", url |-> "", branch |-> ""] }

\* save_config(repository_url, target_path, branch)
SaveConfigCall ==
  /\ pc = "idle"
  /\ ops < MaxOps
  /\ \E repository_url \in {"repoA", "repoB"} :
     \E branch \in {"", "develop"} :
     \E fault \in MayFail("none", SaveFaults) :
       LET s == SaveConfigBranch(repository_url, branch, tdir, config, fault)
           out == [res |-> [BlankResult EXCEPT
                              !.success = s.success,
                              !.error = IF s.success THEN "" ELSE "OSError",
                              !.repository_url = repository_url,
                              !.branch = branch]]
       IN /\ config' = s.config
          /\ tdir' = s.tdir
          /\ last' = Call("save", FALSE, fault # "none", out)
          /\ Injected(fault # "none")
  /\ prev' = last
  /\ ops' = ops + 1
  /\ run' = NoRun
  /\ UNCHANGED <<source, target, sib, vault, clock, order, pc>>

\* load_config(target_path)
LoadConfigCall ==
  /\ pc = "idle"
  /\ ops < MaxOps
  /\ LET c == LoadConfig(IF tdir = "dir" THEN config ELSE NoConfig)
         out == [res |-> [BlankResult EXCEPT
                            !.raised = c.raised,
                            !.success = c.config_exists,
                            !.config_exists = c.config_exists,
                            !.repository_url = c.repository_url,
                            !.branch = c.branch]]
     IN last' = Call("load", FALSE, FALSE, out)
  /\ prev' = last
  /\ ops' = ops + 1
  /\ run' = NoRun
  /\ UNCHANGED <<source, target, sib, vault, clock, order, tdir, config, pc,
                 faults>>

InitConfig ==
  /\ source = NoTree
  /\ target = NoTree
  /\ vault = NoVault
  /\ config \in ConfigFiles
  /\ tdir \in {"dir", "file", "absent"}
  /\ tdir # "dir" => config = NoConfig
  /\ order = DefaultOrder
  /\ clock = 0
  /\ InitCommon

NextConfig == SaveConfigCall \/ LoadConfigCall

SpecConfig == InitConfig /\ [][NextConfig]_vars

(***************************************************************************)
(* SpecUpdateInputs: updates started on every kind of target path and of   *)
(* configuration file.                                                     *)
(***************************************************************************)
InitUpdateInputs ==
  /\ source \in RepoTrees({<<SJ>>})
  /\ target \in TreesOver({<<SJ>>})
  /\ vault = NoVault
  /\ config \in ConfigFiles
  /\ tdir \in {"dir", "file", "absent"}
  /\ tdir # "dir" => target = NoTree /\ config = NoConfig
  /\ order = DefaultOrder
  /\ clock = 0
  /\ InitCommon

SpecUpdateInputs == InitUpdateInputs /\ [][NextUpdate]_vars

\* the update was given a target path that is missing or no directory, or
\* no source while the configuration file provides none
InputsRejected ==
  /\ run.kind = "update"
  /\ \/ tdir # "dir"
     \/ /\ run.arg_source = ""
        /\ \/ run.startConfig.kind # "valid"
           \/ run.startConfig.url = ""

C31_WitnessFromConfig ==
  /\ run.kind = "update" /\ run.arg_source = ""
  /\ run.source_repo = "repoA"
  /\ run.finished /\ run.res.success /\ ~run.dry_run
  /\ config = ConfigFor("repoA")

C31_WitnessNoDirectory ==
  /\ InputsRejected
  /\ tdir = "file"
  /\ run.arg_source # ""

(***************************************************************************)
(* Claims about the configuration file.                                    *)
(***************************************************************************)
\* the last call was a load_config and the call before it a save_config
\* that reported success
LoadedAfterSave ==
  /\ last.op = "load" /\ prev.op = "save"
  /\ prev.res.success

\* C32: a load_config that follows save_config calls returns config_exists
\* True with the repository_url and branch of the most recent save;
\* load_config on a directory with no file, an unparsable file or one
\* without a required field returns config_exists False and no
\* repository_url, and never raises.
C32_LoadAfterSave ==
  /\ LoadedAfterSave =>
       /\ last.res.raised = ""
       /\ last.res.config_exists
       /\ last.res.repository_url = prev.res.repository_url
       /\ last.res.branch = prev.res.branch
  /\ last.op = "load" =>
       /\ last.res.raised = ""
       /\ (config.kind # "valid" \/ tdir # "dir") =>
            /\ ~last.res.config_exists
            /\ last.res.repository_url = ""

\* what holds: the same, for every file that open() can decode and whose
\* JSON value is no number and no null
C32_LoadAfterSaveDecodable ==
  /\ LoadedAfterSave =>
       /\ last.res.raised = ""
       /\ last.res.config_exists
       /\ last.res.repository_url = prev.res.repository_url
       /\ last.res.branch = prev.res.branch
  /\ (last.op = "load" /\ (config.kind # "valid" \/ tdir # "dir")) =>
       /\ ~last.res.config_exists
       /\ last.res.repository_url = ""
       /\ (last.res.raised = "") = (config.kind # "undecodable")

\* a load_config that raised
C32_Witness ==
  /\ last.op = "load"
  /\ last.res.raised # ""

\* a load that returned the repository and branch of the save before it
C32_WitnessLastWins ==
  /\ LoadedAfterSave
  /\ last.res.repository_url = "repoB" /\ last.res.branch = "develop"

(***************************************************************************)
(* Claims about a copy over an existing content tree.                      *)
(***************************************************************************)
\* the last call was a copy over an existing target directory with the
\* backup enabled, it made the backup, and a later step failed
FailedAfterBackup ==
  /\ last.op = "copy" /\ last.preserve
  /\ IsDir(last.pre, RootPath)
  /\ Exists(last.src, RootPath)
  /\ last.stage # "backup"
  /\ ~last.res.success

\* C33: when copy_claude_folder has backed up the existing target and the
\* removal of the old tree, the copy of the source or the statistics fail,
\* then on return the target has exactly the files and bytes it had before
\* the call, the backup directory is gone and the result has success False,
\* backup_created False and no backup_path.
C33_RestoredAfterFailure ==
  (FailedAfterBackup /\ last.res.raised = "") =>
    /\ target = last.pre
    /\ sib = last.preSib
    /\ ~last.res.success
    /\ last.res.error # ""
    /\ ~last.res.backup_created
    /\ last.res.backup_path = NoName

\* a copy that had removed a part of the old tree when it failed, and one
\* that had written a part of the source
C33_Witness ==
  /\ FailedAfterBackup /\ last.res.raised = ""
  /\ last.stage = "copy"
  /\ FilesOf(last.pre) # {}
  /\ FilesOf(last.src) # {}
  /\ last.src # last.pre

C33_WitnessRmtree ==
  /\ FailedAfterBackup /\ last.res.raised = ""
  /\ last.stage = "rmtree"
  /\ FilesOf(last.pre) # {}

\* the restore failed too: copy_claude_folder raised, the target is not
\* what it was and the backup is still there
C33_WitnessRaised ==
  /\ FailedAfterBackup /\ last.res.raised # ""
  /\ target # last.pre
  /\ sib # last.preSib

\* the last call was a copy with the backup enabled over an existing
\* content tree, and it reported success
DeployedOver ==
  /\ last.op = "copy" /\ last.preserve
  /\ Exists(last.pre, RootPath)
  /\ last.res.success

\* C34: after a successful deploy onto a target that has a content tree,
\* the target tree equals the source tree path by path (what only the
\* target held is gone, settings.local.json included), and one sibling
\* .claude.backup.<timestamp>[.<N>] that did not exist before holds the
\* previous tree, every file with its bytes; the other siblings are as
\* they were.
C34_DeployReplacesAndBacksUp ==
  DeployedOver =>
    /\ target = last.src
    /\ last.res.backup_created
    /\ last.res.backup_path \in DOMAIN sib \ DOMAIN last.preSib
    /\ last.res.backup_path.ts = last.now
    /\ sib[last.res.backup_path] = last.pre
    /\ DOMAIN sib = DOMAIN last.preSib \cup {last.res.backup_path}
    /\ \A k \in DOMAIN last.preSib : sib[k] = last.preSib[k]

\* a deploy over a tree that held a settings.local.json the source lacks,
\* in the second of an earlier backup: the file is gone from the target
\* and in the backup, whose name has a suffix
C34_Witness ==
  /\ DeployedOver
  /\ IsFile(last.pre, <<SLJ>>) /\ ~Exists(last.src, <<SLJ>>)
  /\ ~Exists(target, <<SLJ>>)
  /\ last.res.backup_path.n = 1
  /\ sib[last.res.backup_path][<<SLJ>>] = last.pre[<<SLJ>>]

(***************************************************************************)
(* SpecMergeNested: merges of trees that hold settings.local.json at the   *)
(* top and inside a directory.                                             *)
(***************************************************************************)
NestedFamily == { <<SLJ>>, <<CommandsName>>, <<CommandsName, SLJ>> }

InitMergeNested ==
  /\ source \in TreesOver(NestedFamily)
  /\ target \in TreesOver(NestedFamily)
  /\ vault = NoVault
  /\ order \in ScanOrders
  /\ clock = 0
  /\ tdir = "dir"
  /\ config = NoConfig
  /\ InitCommon

SpecMergeNested == InitMergeNested /\ [][NextMerge]_vars

\* the source files that match the preservation pattern and have nothing
\* at their path in the target before the merge
PreservedAndMissing ==
  { p \in FilesOf(last.src) : MatchesLocalSettings(p) /\ ~Exists(last.pre, p) }

\* C35: a source file that matches the preservation pattern and has no
\* file at its path in the target is not created by the merge: the path is
\* absent afterwards, a directory above it that was missing and that no
\* other source file needs is still missing, and the file is counted once
\* in files_preserved.
C35_PreservedNotCreated ==
  (MergedInto /\ last.preserve) =>
    /\ \A p \in PreservedAndMissing :
         /\ ~Exists(target, p)
         /\ \A a \in Ancestors(p) :
              (/\ ~Exists(last.pre, a)
               /\ \A q \in FilesOf(last.src) :
                    IsUnder(q, a) => MatchesLocalSettings(q)) => ~Exists(target, a)
    /\ last.res.success =>
         last.res.files_preserved =
           Cardinality({ p \in FilesOf(last.src) : MatchesLocalSettings(p) })

\* a successful merge whose source holds commands/settings.local.json and
\* whose target has no commands directory
C35_Witness ==
  /\ MergedInto /\ last.preserve /\ last.res.success
  /\ IsFile(last.src, <<CommandsName, SLJ>>)
  /\ ~Exists(last.pre, <<CommandsName>>)
  /\ ~Exists(target, <<CommandsName>>)
  /\ last.res.files_preserved >= 1

\* C36: with preserve_local False the merge applies no preservation rule:
\* files_preserved is 0, and when the merge succeeds settings.local.json,
\* like every other source file, is in the target with the source's bytes,
\* counted as added when the target had nothing there and as updated when
\* it had other bytes.
C36_NoPreservationWhenDisabled ==
  (MergedInto /\ ~last.preserve) =>
    /\ last.res.files_preserved = 0
    /\ last.res.success =>
         /\ \A p \in FilesOf(last.src) : target[p] = last.src[p]
         /\ last.res.files_added =
              Cardinality({ p \in FilesOf(last.src) : ~Exists(last.pre, p) })
         /\ last.res.files_updated =
              Cardinality({ p \in FilesOf(last.src) :
                             /\ IsFile(last.pre, p)
                             /\ last.pre[p].data # last.src[p].data })

\* a successful merge without preservation that overwrote the target's
\* settings.local.json
C36_Witness ==
  /\ MergedInto /\ ~last.preserve /\ last.res.success
  /\ IsFile(last.pre, <<SLJ>>) /\ IsFile(last.src, <<SLJ>>)
  /\ last.pre[<<SLJ>>].data # last.src[<<SLJ>>].data
  /\ target[<<SLJ>>] = last.src[<<SLJ>>]
  /\ last.res.files_updated >= 1

\* one that added a settings.local.json the target did not have
C36_WitnessAdded ==
  /\ MergedInto /\ ~last.preserve /\ last.res.success
  /\ ~Exists(last.pre, <<SLJ>>) /\ IsFile(target, <<SLJ>>)
  /\ last.res.files_added >= 1

(***************************************************************************)
(* C37: the snapshot of an update that goes on to merge.                   *)
(***************************************************************************)
\* an update made its snapshot and no merge or copy has run since
SnapshotBeforeApply ==
  /\ run.kind = "update"
  /\ run.res.backup_created
  /\ ~Took("merge")
  /\ ~Took("copy")

\* an update made its snapshot and its merge has run
SnapshotThenMerge ==
  /\ run.kind = "update"
  /\ run.res.backup_created
  /\ Took("merge")

\* C37: in every update run in which a snapshot is created and a merge then
\* runs, the snapshot is the target content tree as the run found it: from
\* its creation on the snapshot equals the tree of the run's start, the
\* target is still that tree as long as the merge has not run (the snapshot
\* is complete before the first file is added or overwritten), the snapshot
\* was the step before the merge, and the merge left the vault as it was.
C37_SnapshotHoldsStartTree ==
  /\ (run.kind = "update" /\ run.res.backup_created) =>
       /\ run.snapshot \in DOMAIN vault.snaps
       /\ vault.snaps[run.snapshot] = run.start
  /\ SnapshotBeforeApply => target = run.start
  /\ SnapshotThenMerge =>
       /\ last.op = "merge" /\ prev.op = "backup"
       /\ prev.pre = run.start
       /\ last.pre = run.start
       /\ last.preVault = vault
       /\ last.preVault.snaps[run.snapshot] = run.start

\* an update whose merge changed the target after the snapshot was made
C37_Witness ==
  /\ SnapshotThenMerge
  /\ run.finished
  /\ target # run.start

\* the snapshot is there and the merge has not begun
C37_WitnessBefore == SnapshotBeforeApply /\ pc = "u_apply"

\* the merge after the snapshot failed half way: the snapshot still holds
\* the tree of the start
C37_WitnessFailedMerge ==
  /\ SnapshotThenMerge
  /\ ~last.res.success
  /\ target # run.start

(***************************************************************************)
(* The update command, main.py:173-348.  It does not call                  *)
(* update_operation: it makes the same library calls itself.  It is run    *)
(* with the arguments update_operation was given, on the filesystem that   *)
(* operation started from, with the user and the network behaving as they  *)
(* did for the operation.  run.twin is what the command has done so far:   *)
(* the step it is about to take (pc), the filesystem it works on (tdir,    *)
(* target, vault, sib, config), the repository it settled on, what the     *)
(* user was asked ("none": not asked) and the calls made, in order.  The   *)
(* temporary directory of main.py:257 is not part of that filesystem.      *)
(***************************************************************************)
CliLog(c, step) == [c EXCEPT !.log = Append(@, step)]

\* the command returns
CliReturn(c) == [c EXCEPT !.pc = "done", !.ran = TRUE]

CliGoto(c, next) == [c EXCEPT !.pc = next]

\* main.py:175-206: the target path is checked; without --source the
\* repository is the configuration's, and when the configuration names
\* none the user is asked for it (click.prompt, which the user may abort)
CliUpdate(c, source_arg, typed) ==
  LET cfg == LoadConfig(c.config)
  IN IF c.tdir # "dir"
     THEN CliReturn(c)
     ELSE IF source_arg # ""
     THEN CliGoto([c EXCEPT !.source_repo = source_arg], "backup")
     ELSE IF cfg.raised # ""
     THEN CliReturn(c)
     ELSE IF cfg.config_exists /\ cfg.repository_url # ""
     THEN CliGoto([c EXCEPT !.source_repo = cfg.repository_url], "backup")
     ELSE IF typed = "abort"
     THEN CliReturn([c EXCEPT !.typed = "abort"])
     ELSE CliGoto([c EXCEPT !.source_repo = typed, !.typed = typed], "backup")

\* main.py:240-242, mutated: the dry run goes on to the remote calls
CliDryRunCheckNever(c, dry_run) == CliGoto(c, "remote")

\* main.py:240-242: a dry run ends here
CliDryRunCheck(c, dry_run) ==
  IF dry_run THEN CliReturn(c) ELSE CliGoto(c, "remote")

\* main.py:211-238: the backup before the update.  should_create_backup is
\* called whenever the target has a content tree, in a dry run as well;
\* the snapshot is made when the answer is yes and the run is not a dry
\* run, and its failure ends the command.  A corrupted content tree and an
\* aborted prompt leave as exceptions (347)
CliBackup(c, now, no_backup, dry_run, answer, bfault) ==
  LET d == DetectClaudeFolder(c.target)
      c1 == [c EXCEPT !.answer = IF no_backup THEN "none" ELSE answer]
      out == CreateClaudeBackup(c.target, c.vault, now, bfault)
      c2 == [CliLog(c1, "backup") EXCEPT
               !.vault = out.vault,
               !.injected = bfault # NoBackupFault]
  IN IF d = "Corrupted"
     THEN CliReturn(c)
     ELSE IF d = "NotFound"
     THEN CliDryRunCheck(c, dry_run)
     ELSE IF c1.answer = "abort"
     THEN CliReturn(c1)
     ELSE IF ShouldCreateBackup(no_backup, answer) /\ ~dry_run
     THEN IF out.res.success
          THEN CliDryRunCheck(c2, dry_run)
          ELSE CliReturn(c2)
     ELSE CliDryRunCheck(c1, dry_run)

\* main.py:245-273: ensure_github_setup, validate_repository_access, the
\* temporary directory, clone_repository and the detection of the source's
\* .claude; an exception of the first four reaches the handlers of 343-347
CliRemote(c, src, setup, access, clone) ==
  LET c1 == CliLog(c, "ensure_github_setup")
      c2 == CliLog(c1, "validate_repository_access")
      c3 == CliLog(c2, "clone_repository")
  IN IF setup # "ok"
     THEN CliReturn([c1 EXCEPT !.remote = setup])
     ELSE IF access # "ok"
     THEN CliReturn([c2 EXCEPT !.remote = "access"])
     ELSE IF clone = "no tempdir"
     THEN CliReturn([c2 EXCEPT !.remote = "no tempdir"])
     ELSE IF clone # "ok"
     THEN CliReturn([c3 EXCEPT !.remote = "clone"])
     ELSE IF DetectClaudeFolder(src) # "ok"
     THEN CliReturn([c3 EXCEPT !.remote = "ok"])
     ELSE CliGoto([c3 EXCEPT !.remote = "ok"], "apply")

\* main.py:293-302 and 320-329: save_config(source, target_path); its
\* failure is a warning
CliSaveConfig(c, sfault) ==
  LET out == SaveConfig(c.source_repo, c.tdir, c.config, sfault)
  IN [CliLog(c, "save_config") EXCEPT !.config = out.config,
                                      !.tdir = out.tdir,
                                      !.injected = @ \/ sfault # "none"]

\* main.py:275-338: merge into the content tree, or copy when there is
\* none, and save the configuration after a success; an exception ends in
\* the "except Exception" of line 337
CliApply(c, src, ord, now, fault) ==
  LET d == DetectClaudeFolder(c.target)
      merged == MergeClaudeFolders(src, c.target, c.sib, now, ord, TRUE,
                                   fault.mfault, NoCopyFault)
      copied == CopyClaudeFolder(src, c.target, c.sib, now, TRUE, fault.cfault)
      out == IF d = "ok" THEN merged ELSE copied
      c1 == [CliLog(c, IF d = "ok" THEN "merge" ELSE "copy") EXCEPT
               !.target = out.target, !.sib = out.sib,
               !.injected = IF d = "ok" THEN fault.mfault # NoFault
                            ELSE fault.cfault # NoCopyFault]
  IN IF d = "Corrupted"
     THEN CliReturn(c)
     ELSE IF out.res.success
     THEN CliReturn(CliSaveConfig(c1, fault.sfault))
     ELSE CliReturn(c1)

\* how the remote calls of one run can go: all of them succeed, or one of
\* them raises and the later ones are not made
CliRemoteOutcomes ==
  { [setup |-> "ok", access |-> "ok", clone |-> "ok"],
    [setup |-> "GitHubCLIError", access |-> "ok", clone |-> "ok"],
    [setup |-> "Exception", access |-> "ok", clone |-> "ok"],
    [setup |-> "ok", access |-> "Exception", clone |-> "ok"],
    [setup |-> "ok", access |-> "ok", clone |-> "no tempdir"],
    [setup |-> "ok", access |-> "ok", clone |-> "Exception"] }

NoCliFault == [mfault |-> NoFault, cfault |-> NoCopyFault, sfault |-> "none"]

\* the library calls of the last step, on the content tree t: none fails,
\* or one of them does
CliFaults(src, t, ord) ==
  MayFail(NoCliFault,
    { [NoCliFault EXCEPT !.mfault = f] :
        f \in MergeFaults(Len(WalkOf(src, ord))) } \cup
    { [NoCliFault EXCEPT !.cfault = f] :
        f \in CopyFaultsReached(src, t, FALSE) } \cup
    { [NoCliFault EXCEPT !.sfault = f] : f \in SaveFaults })

\* how the remote calls of the operation's run went
RunRemote ==
  IF ~Took("ensure_github_setup") THEN "none"
  ELSE IF ~Took("validate_repository_access")
  THEN (IF run.res.error = "GitHub CLI error" THEN "GitHubCLIError"
        ELSE "Exception")
  ELSE IF run.res.error = "Repository validation error" THEN "access"
  ELSE IF ~Took("clone_repository") THEN "no tempdir"
  ELSE IF run.res.error = "Repository clone error" THEN "clone"
  ELSE "ok"

Unfailed(remote) == remote \in {"none", "ok"}

\* the answers the user gives the command: the answer update_operation was
\* given to the backup question, if it asked
CliAnswers ==
  IF run.answer = "none" THEN {"yes", "no", "abort"} ELSE {run.answer}

\* the remote calls go for the command as they went for update_operation
CliRemoteLike(remote) ==
  { o \in CliRemoteOutcomes :
      IF Unfailed(remote)
      THEN o.setup = "ok" /\ o.access = "ok" /\ o.clone = "ok"
      ELSE \/ o.setup = remote
           \/ remote = "access" /\ o.access = "Exception"
           \/ remote = "no tempdir" /\ o.clone = "no tempdir"
           \/ remote = "clone" /\ o.clone = "Exception" }

\* the command before a step: no failure met in it yet
CliAt(c) == [c EXCEPT !.injected = FALSE]

\* a step of the command changes run.twin and nothing else; injected tells
\* whether a library call of the step failed
CliStep(c) ==
  /\ run' = [run EXCEPT !.twin = c]
  /\ Injected(c.injected)
  /\ UNCHANGED <<source, target, vault, sib, clock, order, ops, last, prev,
                 tdir, config, pc>>

\* the command starts once update_operation has returned
UpdateCommand ==
  /\ pc = "idle"
  /\ run.kind = "update"
  /\ run.finished
  /\ run.twin.pc = "none"
  /\ \E typed \in {"repoB", "abort"} :
       CliStep(CliUpdate([NoTwin EXCEPT !.tdir = tdir,
                                        !.target = run.start,
                                        !.vault = run.startVault,
                                        !.sib = run.startSib,
                                        !.config = run.startConfig],
                         run.arg_source, typed))

UpdateCommandBackup ==
  /\ run.twin.pc = "backup"
  /\ \E answer \in CliAnswers :
     \E bfault \in MayFail(NoBackupFault, BackupFaults(run.twin.target)) :
       CliStep(CliBackup(CliAt(run.twin), clock, run.no_backup, run.dry_run,
                         answer, bfault))

UpdateCommandRemote ==
  /\ run.twin.pc = "remote"
  /\ \E o \in CliRemoteLike(RunRemote) :
       CliStep(CliRemote(CliAt(run.twin), source, o.setup, o.access, o.clone))

UpdateCommandApply ==
  /\ run.twin.pc = "apply"
  /\ \E fault \in CliFaults(source, run.twin.target, order) :
       CliStep(CliApply(CliAt(run.twin), source, order, clock, fault))

(***************************************************************************)
(* SpecTwin: update_operation runs, then the update command is run with    *)
(* the same arguments on the filesystem the operation started from.        *)
(***************************************************************************)
InitTwin ==
  /\ source \in RepoTrees({<<SJ>>})
  /\ target \in TreesOver({<<SJ>>})
  /\ vault = NoVault
  /\ config \in {NoConfig, ConfigFor("repoA"),
                 [kind |-> "invalid", url |-> "", branch |-> ""]}
  /\ tdir = "dir"
  /\ order = DefaultOrder
  /\ clock = 0
  /\ InitCommon

NextTwin ==
  \/ UpdateBegin
  \/ UpdateBackupDecision
  \/ UpdateCreateBackup
  \/ UpdateDryRunCheck
  \/ RunGithub
  \/ RunClone
  \/ RunDetectSource
  \/ UpdateApply
  \/ RunSaveConfig
  \/ UpdateCommand
  \/ UpdateCommandBackup
  \/ UpdateCommandRemote
  \/ UpdateCommandApply

SpecTwin == InitTwin /\ [][NextTwin]_vars

\* the calls with an effect, as update_operation logs them
EffectSteps ==
  {"backup", "ensure_github_setup", "validate_repository_access",
   "clone_repository", "merge", "copy", "save_config"}

Effects(log) == SelectSeq(log, LAMBDA step : step \in EffectSteps)

\* the snapshots of a vault, whatever their names
SnapshotTrees(v) == { v.snaps[n] : n \in DOMAIN v.snaps }

\* the operation and the command have both run: with the same arguments
\* and on the same filesystem, with the same answer to the backup question
\* where both asked it, with remote calls that went the same way, and
\* without a failure of a library call
RanBoth ==
  /\ run.kind = "update"
  /\ run.finished
  /\ run.twin.ran
  /\ faults = 0
  /\ run.answer = run.twin.answer \/ "none" \in {run.answer, run.twin.answer}
  /\ \/ RunRemote = run.twin.remote
     \/ Unfailed(RunRemote) /\ Unfailed(run.twin.remote)

\* the command made the calls the operation made and left the filesystem
\* the operation left
SameEffects ==
  /\ run.twin.log = Effects(run.log)
  /\ run.twin.target = target
  /\ run.twin.config = config
  /\ run.twin.sib = sib
  /\ run.twin.vault.kind = vault.kind
  /\ SnapshotTrees(run.twin.vault) = SnapshotTrees(vault)
  /\ Cardinality(DOMAIN run.twin.vault.snaps) = Cardinality(DOMAIN vault.snaps)

\* the command asked the user for the repository and was given one
SourceTyped == run.twin.typed \notin {"none", "abort"}

\* C38 as stated: for the same initial filesystem, the same source, the
\* same dry-run and no-backup flags and the same answer to the backup
\* question, the update command and update_operation perform the same
\* sequence of effects (snapshot, remote calls, merge or fresh copy,
\* configuration write) and end with the same target tree.
C38_CommandMatchesOperation == RanBoth => SameEffects

\* C38 amended: the same holds whenever the command did not have to ask
\* the user for the repository, that is when the source is given or the
\* configuration names one; asked and answered, the command goes on where
\* update_operation returns an error.
C38_CommandMatchesOperationWithSource ==
  RanBoth =>
    /\ ~SourceTyped => SameEffects
    /\ SourceTyped =>
         /\ run.arg_source = ""
         /\ run.res.error = "No source repository specified and no configuration found"
         /\ Effects(run.log) = <<>>
         /\ target = run.start

\* both merged the same source into the same tree and saved the
\* configuration
C38_Witness ==
  /\ RanBoth
  /\ SameEffects
  /\ run.twin.log = <<"backup", "ensure_github_setup",
                      "validate_repository_access", "clone_repository",
                      "merge", "save_config">>
  /\ target # run.start

\* the command, given the repository at its prompt, updated a target that
\* update_operation refused to update
C38_WitnessTyped ==
  /\ RanBoth
  /\ SourceTyped
  /\ run.twin.target # target
  /\ "merge" \in { run.twin.log[i] : i \in DOMAIN run.twin.log }

\* both found no content tree in the target and copied the source's
C38_WitnessCopy ==
  /\ RanBoth
  /\ SameEffects
  /\ ~SourceTyped
  /\ run.applied = "copy"
  /\ run.twin.log = <<"ensure_github_setup", "validate_repository_access",
                      "clone_repository", "copy", "save_config">>

\* a dry run: the command asks the backup question, the operation does
\* not, and neither touches anything
C38_WitnessDryRun ==
  /\ RanBoth
  /\ run.dry_run
  /\ run.answer = "none"
  /\ run.twin.answer = "yes"
  /\ run.twin.log = <<>>
=============================================================================
